---- MODULE Spec2Model ----
(***************************************************************************)
(* Model of the execution engine of the Lumina coding agent:               *)
(*   - the tool functions of src/tools.py acting on a filesystem,          *)
(*   - the Action Log of src/action_history.py and undo_last_action,       *)
(*   - the dispatcher ToolExecutionSystem.execute_tool_from_dict,          *)
(*   - the Control Loop Agent.run / Agent.act of src/agent.py.             *)
(*   - the file cache of src/working_memory.py (CacheSpec),                *)
(*   - the project patterns of src/persistent_memory.py (PatternSpec),     *)
(*   - MemoryManager.sync_memory of src/memory_manager.py (SyncSpec),      *)
(*   - sessions of destructive tool calls and undos, with their backup     *)
(*     copies (UndoSpec, SessionSpec, RepairSpec).                         *)
(*   - syncs on demand (SweepSpec) and tool calls through Agent.act that   *)
(*     feed the file cache (CoherenceSpec),                                *)
(*   - the user preferences, success patterns and tool statistics of       *)
(*     src/persistent_memory.py (PreferenceSpec, SuccessSpec, UsageSpec),  *)
(*   - two processes sharing one store directory (SharedSpec).             *)
(*                                                                         *)
(* File contents and code fragments are sequences over a two-letter        *)
(* alphabet. A file is a record [exists, content]; Python's None for a     *)
(* recorded prior content is the record of a file that does not exist.     *)
(***************************************************************************)
EXTENDS Integers, Sequences, FiniteSets, TLC

\* ------------------------------------------------------------------ bounds
\* longest file content of the model
MaxLen == 2
\* longest Action Log of the model
MaxHistory == 1
\* WorkingMemory(max_file_cache, max_change_history) as the model constructs it
max_file_cache == 1
max_change_history == 1
\* most record_project_pattern calls per pattern type in the model
MaxRecordings == 3
\* longest Action Log of the undo sequences of the model
MaxDepth == 3
\* most writes to one file in the sessions that cache what they read
MaxWrites == 3
\* most record_user_preference calls of the model
MaxPreferences == 2
\* most record_project_pattern calls a session's store has seen in the model
\* of two sessions
MaxShared == 2
\* most tool calls executed in the model of the tool statistics
MaxExecutions == 3
\* most record_success_pattern calls of the model
MaxSuccesses == 3
\* most clock advances of the model
MaxTicks == 3
\* most operations held in the file access records of the model
MaxOperations == 1

\* ------------------------------------------------------- program constants
\* Agent.max_iterations
max_iterations == 10
\* MemoryManager.memory_sync_interval, in seconds
memory_sync_interval == 60
\* cleanup_old_memory(days_old=30)
days_old == 30

\* ----------------------------------------------------------------- strings
Alphabet == {"a", "b"}

RECURSIVE StringsUpTo(_)
StringsUpTo(n) ==
    IF n = 0 THEN {<<>>}
    ELSE LET shorter == StringsUpTo(n - 1)
         IN  shorter \cup {Append(s, c) : s \in {t \in shorter : Len(t) = n - 1}, c \in Alphabet}

Contents == StringsUpTo(MaxLen)
\* the old_code / new_code fragments of the model: empty or one letter
Codes == {<<>>} \cup {<<c>> : c \in Alphabet}

\* t occurs in s at position i (Python: s[i-1:].startswith(t))
OccursAt(s, t, i) ==
    /\ i + Len(t) - 1 <= Len(s)
    /\ SubSeq(s, i, i + Len(t) - 1) = t

\* Python: t in s
Contains(s, t) == \E i \in 1..(Len(s) + 1) : OccursAt(s, t, i)

FirstIndex(s, t) ==
    CHOOSE i \in 1..(Len(s) + 1) :
        /\ OccursAt(s, t, i)
        /\ \A j \in 1..(i - 1) : ~OccursAt(s, t, j)

\* Python: s.replace(old, new, 1)
ReplaceFirst(s, old, new) ==
    IF ~Contains(s, old) THEN s
    ELSE LET i == FirstIndex(s, old)
         IN  SubSeq(s, 1, i - 1) \o new \o SubSeq(s, i + Len(old), Len(s))

\* -------------------------------------------------------------- filesystem
Files == {"a.txt"}

NoFile == [exists |-> FALSE, content |-> <<>>]
File(c) == [exists |-> TRUE, content |-> c]
FileStates == {NoFile} \cup {File(c) : c \in Contents}

\* Python None as a recorded original_content
None == NoFile

Ok(msg) == [status |-> "success", message |-> msg]
Err(msg) == [status |-> "error", message |-> msg]

\* _create_backup reporting success when the copy failed
_create_backup_lenient(f, filepath, backup_ok) ==
    IF f[filepath].exists
    THEN Ok("Backup created")
    ELSE Ok("No file to backup")

\* tools._create_backup, line 16: what shutil.copy2 leaves at backup_path,
\* old being what was there
backup_copy(f, filepath, backup_ok, old) ==
    IF f[filepath].exists /\ backup_ok THEN File(f[filepath].content) ELSE old

\* tools._create_backup: copies an existing file; the copy may fail
_create_backup(f, filepath, backup_ok) ==
    IF f[filepath].exists
    THEN IF backup_ok THEN Ok("Backup created") ELSE Err("Failed to create backup")
    ELSE Ok("No file to backup")

\* tools.read_file
read_file(f, filepath) ==
    IF f[filepath].exists
    THEN [status |-> "success", has_content |-> TRUE, content |-> f[filepath].content]
    ELSE [status |-> "error", has_content |-> FALSE, content |-> <<>>]

\* tools.write_file: [fs, out]
write_file(f, filepath, content, backup_ok) ==
    IF _create_backup(f, filepath, backup_ok).status = "error"
    THEN [fs |-> f, out |-> _create_backup(f, filepath, backup_ok)]
    ELSE [fs |-> [f EXCEPT ![filepath] = File(content)], out |-> Ok("written")]

\* tools.delete_file
delete_file(f, filepath, backup_ok) ==
    IF _create_backup(f, filepath, backup_ok).status = "error"
    THEN [fs |-> f, out |-> _create_backup(f, filepath, backup_ok)]
    ELSE IF f[filepath].exists
         THEN [fs |-> [f EXCEPT ![filepath] = NoFile], out |-> Ok("deleted")]
         ELSE [fs |-> f, out |-> Err("File not found")]

\* tools.clear_file_content: open(filepath, 'w') creates a missing file
clear_file_content(f, filepath, backup_ok) ==
    IF _create_backup(f, filepath, backup_ok).status = "error"
    THEN [fs |-> f, out |-> _create_backup(f, filepath, backup_ok)]
    ELSE [fs |-> [f EXCEPT ![filepath] = File(<<>>)], out |-> Ok("cleared")]

\* apply_code_change without the test `old_code not in content`
apply_code_change_unchecked(f, filepath, old_code, new_code, backup_ok) ==
    IF _create_backup(f, filepath, backup_ok).status = "error"
    THEN [fs |-> f, out |-> _create_backup(f, filepath, backup_ok)]
    ELSE IF ~f[filepath].exists
         THEN [fs |-> f, out |-> Err("File not found")]
         ELSE [fs |-> [f EXCEPT ![filepath] =
                          File(ReplaceFirst(f[filepath].content, old_code, new_code))],
               out |-> Ok("applied")]

\* tools.apply_code_change
apply_code_change(f, filepath, old_code, new_code, backup_ok) ==
    IF _create_backup(f, filepath, backup_ok).status = "error"
    THEN [fs |-> f, out |-> _create_backup(f, filepath, backup_ok)]
    ELSE IF ~f[filepath].exists
         THEN [fs |-> f, out |-> Err("File not found")]
         ELSE IF ~Contains(f[filepath].content, old_code)
              THEN [fs |-> f, out |-> Err("Old code not found")]
              ELSE [fs |-> [f EXCEPT ![filepath] =
                               File(ReplaceFirst(f[filepath].content, old_code, new_code))],
                    out |-> Ok("applied")]

\* ------------------------------------------------------------- Action Log
\* ActionHistory.record_action
record_action(h, action_type, details) ==
    Append(h, [type |-> action_type, details |-> details])

\* pop_last_action taking the oldest record
pop_first_action(h) ==
    IF h # <<>>
    THEN [history |-> Tail(h), last |-> h[1]]
    ELSE [history |-> h, last |-> [type |-> "none"]]

\* pop_last_action that leaves the record in place, as get_last_action does
peek_last_action(h) ==
    IF h # <<>>
    THEN [history |-> h, last |-> h[Len(h)]]
    ELSE [history |-> h, last |-> [type |-> "none"]]

\* ActionHistory.pop_last_action: [history, last]; last.type = "none" for None
pop_last_action(h) ==
    IF h # <<>>
    THEN [history |-> SubSeq(h, 1, Len(h) - 1), last |-> h[Len(h)]]
    ELSE [history |-> h, last |-> [type |-> "none"]]

\* details of a write_file / delete_file / clear_file_content record
ContentDetails(filepath, original_content) ==
    [filepath |-> filepath, original_content |-> original_content,
     old_code |-> <<>>, new_code |-> <<>>]

\* details of an apply_code_change record
CodeDetails(filepath, old_code, new_code) ==
    [filepath |-> filepath, original_content |-> None,
     old_code |-> old_code, new_code |-> new_code]

\* the pre-operation read of the _wrapped_* methods:
\* None unless os.path.exists(filepath)
OriginalContent(f, filepath) ==
    IF f[filepath].exists THEN File(read_file(f, filepath).content) ELSE None

\* _wrapped_write_file reading the original content after the write
_wrapped_write_file_late(f, h, filepath, content, backup_ok) ==
    LET result == write_file(f, filepath, content, backup_ok)
    IN  [fs |-> result.fs,
         history |-> IF result.out.status = "success"
                     THEN record_action(h, "write_file",
                                        ContentDetails(filepath,
                                                       OriginalContent(result.fs, filepath)))
                     ELSE h,
         out |-> result.out]

\* ToolExecutionSystem._wrapped_write_file: [fs, history, out]
_wrapped_write_file(f, h, filepath, content, backup_ok) ==
    LET result == write_file(f, filepath, content, backup_ok)
    IN  [fs |-> result.fs,
         history |-> IF result.out.status = "success"
                     THEN record_action(h, "write_file",
                                        ContentDetails(filepath, OriginalContent(f, filepath)))
                     ELSE h,
         out |-> result.out]

\* _wrapped_delete_file recording the action whatever the result
_wrapped_delete_file_always(f, h, filepath, backup_ok) ==
    LET result == delete_file(f, filepath, backup_ok)
    IN  [fs |-> result.fs,
         history |-> record_action(h, "delete_file",
                                   ContentDetails(filepath, OriginalContent(f, filepath))),
         out |-> result.out]

\* ToolExecutionSystem._wrapped_delete_file
_wrapped_delete_file(f, h, filepath, backup_ok) ==
    LET result == delete_file(f, filepath, backup_ok)
    IN  [fs |-> result.fs,
         history |-> IF result.out.status = "success"
                     THEN record_action(h, "delete_file",
                                        ContentDetails(filepath, OriginalContent(f, filepath)))
                     ELSE h,
         out |-> result.out]

\* ToolExecutionSystem._wrapped_clear_file_content
_wrapped_clear_file_content(f, h, filepath, backup_ok) ==
    LET result == clear_file_content(f, filepath, backup_ok)
    IN  [fs |-> result.fs,
         history |-> IF result.out.status = "success"
                     THEN record_action(h, "clear_file_content",
                                        ContentDetails(filepath, OriginalContent(f, filepath)))
                     ELSE h,
         out |-> result.out]

\* ToolExecutionSystem._wrapped_apply_code_change
_wrapped_apply_code_change(f, h, filepath, old_code, new_code, backup_ok) ==
    LET result == apply_code_change(f, filepath, old_code, new_code, backup_ok)
    IN  [fs |-> result.fs,
         history |-> IF result.out.status = "success"
                     THEN record_action(h, "apply_code_change",
                                        CodeDetails(filepath, old_code, new_code))
                     ELSE h,
         out |-> result.out]

\* ------------------------------------------------------------------- undo
\* The four reversal branches of tools.undo_last_action, each [fs, out].
\* Every exception of a reversal is caught and becomes an error result.

\* undo of a write_file record that tests `not original_content`, so that an
\* empty prior content counts as absent
UndoWriteFileFalsy(f, details) ==
    IF details.original_content = None \/ details.original_content.content = <<>>
    THEN IF f[details.filepath].exists
         THEN [fs |-> [f EXCEPT ![details.filepath] = NoFile],
               out |-> Ok("Removed newly created file")]
         ELSE [fs |-> f, out |-> Err("Error undoing action")]
    ELSE [fs |-> [f EXCEPT ![details.filepath] = File(details.original_content.content)],
          out |-> Ok("Restored previous content")]

\* undo of a write_file record
UndoWriteFile(f, details) ==
    IF details.original_content = None
    THEN IF f[details.filepath].exists
         THEN [fs |-> [f EXCEPT ![details.filepath] = NoFile],
               out |-> Ok("Removed newly created file")]
         \* os.remove raises FileNotFoundError
         ELSE [fs |-> f, out |-> Err("Error undoing action")]
    ELSE [fs |-> [f EXCEPT ![details.filepath] = File(details.original_content.content)],
          out |-> Ok("Restored previous content")]

\* undo of a delete_file record
UndoDeleteFile(f, details) ==
    IF details.original_content # None
    THEN [fs |-> [f EXCEPT ![details.filepath] = File(details.original_content.content)],
          out |-> Ok("Restored deleted file")]
    ELSE [fs |-> f, out |-> Err("Could not restore deleted file")]

\* undo of a clear_file_content record: open(filepath, 'w') has truncated
\* or created the file when f.write(None) raises TypeError
UndoClearFileContent(f, details) ==
    IF details.original_content # None
    THEN [fs |-> [f EXCEPT ![details.filepath] = File(details.original_content.content)],
          out |-> Ok("Restored content")]
    ELSE [fs |-> [f EXCEPT ![details.filepath] = File(<<>>)],
          out |-> Err("Error undoing action")]

\* undo of an apply_code_change record without the test
\* `old_code_for_undo not in current_content`
UndoApplyCodeChangeUnchecked(f, details) ==
    IF ~read_file(f, details.filepath).has_content
    THEN [fs |-> f, out |-> Err("Error undoing action")]
    ELSE [fs |-> [f EXCEPT ![details.filepath] =
                     File(ReplaceFirst(f[details.filepath].content,
                                       details.new_code, details.old_code))],
          out |-> Ok("Undid code change")]

\* undo of an apply_code_change record: read_file(filepath)['content']
\* raises KeyError when the file is gone
UndoApplyCodeChange(f, details) ==
    IF ~read_file(f, details.filepath).has_content
    THEN [fs |-> f, out |-> Err("Error undoing action")]
    ELSE IF ~Contains(f[details.filepath].content, details.new_code)
         THEN [fs |-> f, out |-> Err("Could not undo code change")]
         ELSE [fs |-> [f EXCEPT ![details.filepath] =
                          File(ReplaceFirst(f[details.filepath].content,
                                            details.new_code, details.old_code))],
               out |-> Ok("Undid code change")]

\* undo_last_action that reports success when there is nothing to undo
undo_last_action_lenient(f, h) ==
    IF h = <<>>
    THEN [fs |-> f, history |-> h, out |-> Ok("Nothing to undo")]
    ELSE LET popped == pop_last_action(h)
         IN  [fs |-> f, history |-> popped.history, out |-> Err("Unsupported action type for undo")]

\* tools.undo_last_action: [fs, history, out]; the record is popped first
undo_last_action(f, h) ==
    LET popped == pop_last_action(h)
        last_action == popped.last
        reversal ==
            IF last_action.type = "write_file" THEN UndoWriteFile(f, last_action.details)
            ELSE IF last_action.type = "delete_file" THEN UndoDeleteFile(f, last_action.details)
            ELSE IF last_action.type = "clear_file_content"
                 THEN UndoClearFileContent(f, last_action.details)
            ELSE IF last_action.type = "apply_code_change"
                 THEN UndoApplyCodeChange(f, last_action.details)
            ELSE [fs |-> f, out |-> Err("Unsupported action type for undo")]
    IN  IF last_action.type = "none"
        THEN [fs |-> f, history |-> h, out |-> Err("No actions to undo.")]
        ELSE [fs |-> reversal.fs, history |-> popped.history, out |-> reversal.out]

\* ------------------------------------------------------------- dispatcher
\* ToolExecutionSystem.available_tools
available_tools ==
    {"read_file", "write_file", "delete_file", "clear_file_content", "run_git_command",
     "run_command", "list_directory_contents", "search_files", "run_linter", "run_tests",
     "apply_code_change", "undo_last_action", "get_memory_status", "search_memory_patterns"}

\* shell commands of the model: one without effect on the files, one that
\* removes a file
Commands == {"ls", "rm"}

\* a tool call {"function": {"name": ..., "arguments": {...}}}; shape tells
\* whether the arguments are a dict with the keys the tool declares
ArgShapes == {"ok", "bad_keys", "not_dict"}

Call(name, shape, filepath, content, old_code, new_code, command) ==
    [name |-> name, shape |-> shape, filepath |-> filepath, content |-> content,
     old_code |-> old_code, new_code |-> new_code, command |-> command]

AnyFile == CHOOSE p \in Files : TRUE

FileCall(name, filepath) == Call(name, "ok", filepath, <<>>, <<>>, <<>>, "ls")
WriteCall(filepath, content) == Call("write_file", "ok", filepath, content, <<>>, <<>>, "ls")
ApplyCall(filepath, old_code, new_code) ==
    Call("apply_code_change", "ok", filepath, <<>>, old_code, new_code, "ls")
CommandCall(filepath, command) == Call("run_command", "ok", filepath, <<>>, <<>>, <<>>, command)
PlainCall(name, shape) == Call(name, shape, AnyFile, <<>>, <<>>, <<>>, "ls")

\* tools.run_command: the shell runs the command; every outcome of the
\* child process is a success result
run_command(f, filepath, command) ==
    [fs |-> IF command = "rm" THEN [f EXCEPT ![filepath] = NoFile] ELSE f,
     out |-> Ok("Exit Code")]

Returned(f, h, out) == [fs |-> f, history |-> h, out |-> out, raised |-> FALSE]
Raised(f, h) == [fs |-> f, history |-> h, out |-> Err("exception"), raised |-> TRUE]

\* ToolExecutionSystem.execute_tool_from_dict: [fs, history, out, raised].
\* tool_function(**tool_args) raises TypeError on arguments that are not a
\* dict of exactly the declared keys; ext_ok is the outcome of an external
\* program (git)
execute_tool_from_dict(f, h, call, backup_ok, ext_ok) ==
    IF call.name \notin available_tools
    THEN Returned(f, h, Err("Tool not found."))
    ELSE IF call.name = "undo_last_action"
    THEN LET r == undo_last_action(f, h) IN Returned(r.fs, r.history, r.out)
    ELSE IF call.name = "get_memory_status"
    THEN Returned(f, h, Ok("memory summary"))
    ELSE IF call.name = "search_memory_patterns"
    THEN IF call.shape = "not_dict" THEN Raised(f, h) ELSE Returned(f, h, Ok("patterns"))
    ELSE IF call.shape # "ok"
    THEN Raised(f, h)
    ELSE IF call.name = "read_file"
    THEN Returned(f, h, [status |-> read_file(f, call.filepath).status, message |-> "read"])
    ELSE IF call.name = "write_file"
    THEN LET r == _wrapped_write_file(f, h, call.filepath, call.content, backup_ok)
         IN  Returned(r.fs, r.history, r.out)
    ELSE IF call.name = "delete_file"
    THEN LET r == _wrapped_delete_file(f, h, call.filepath, backup_ok)
         IN  Returned(r.fs, r.history, r.out)
    ELSE IF call.name = "clear_file_content"
    THEN LET r == _wrapped_clear_file_content(f, h, call.filepath, backup_ok)
         IN  Returned(r.fs, r.history, r.out)
    ELSE IF call.name = "apply_code_change"
    THEN LET r == _wrapped_apply_code_change(f, h, call.filepath, call.old_code,
                                             call.new_code, backup_ok)
         IN  Returned(r.fs, r.history, r.out)
    ELSE IF call.name = "run_command"
    THEN LET r == run_command(f, call.filepath, call.command) IN Returned(r.fs, h, r.out)
    ELSE IF call.name = "run_git_command"
    THEN Returned(f, h, IF ext_ok THEN Ok("git") ELSE Err("Git command failed"))
    \* list_directory_contents, search_files, run_linter, run_tests
    ELSE Returned(f, h, Ok("content"))

\* ---------------------------------------------------------- Working Memory
\* the paths given to the cache
CachePaths == {"f1", "f2"}

\* the contents callers cache
CachedContents == {<<>>, <<"a">>}

\* a path on disk: absent, or one of the versions of the file, each with its
\* modification time and content
Absent == [exists |-> FALSE, mtime |-> 0, content |-> <<>>]
Versions ==
    {[exists |-> TRUE, mtime |-> 1, content |-> <<"a">>],
     [exists |-> TRUE, mtime |-> 2, content |-> <<>>]}
DiskStates == {Absent} \cup Versions

\* hashlib.md5(content.encode('utf-8')).hexdigest()
Hash(content) == <<"md5", content>>

\* dict[k] = v, dict.pop(k, None) and `k in dict` on a dict held as a function
Put(map, k, v) == [q \in (DOMAIN map) \cup {k} |-> IF q = k THEN v ELSE map[q]]
Pop(map, k) == [q \in (DOMAIN map) \ {k} |-> map[q]]
Has(map, k) == k \in DOMAIN map

\* the same on file_timestamps, held as the sequence of its items <<path,
\* mtime>> in insertion order: an assignment to a present key keeps its place
Keys(items) == {items[i][1] : i \in 1..Len(items)}
Get(items, k, default) ==
    IF k \in Keys(items)
    THEN items[CHOOSE i \in 1..Len(items) : items[i][1] = k][2]
    ELSE default
PutItem(items, k, v) ==
    IF k \in Keys(items)
    THEN [i \in 1..Len(items) |-> IF items[i][1] = k THEN <<k, v>> ELSE items[i]]
    ELSE Append(items, <<k, v>>)
PopItem(items, k) == SelectSeq(items, LAMBDA item : item[1] # k)

\* sorted(items, key=lambda x: x[1]): stable, so equal times keep their order
RECURSIVE SortedByTime(_)
SortedByTime(items) ==
    IF items = <<>> THEN <<>>
    ELSE LET i == CHOOSE i \in 1..Len(items) :
                     /\ \A j \in 1..Len(items) : items[i][2] <= items[j][2]
                     /\ \A j \in 1..(i - 1) : items[j][2] # items[i][2]
         IN  <<items[i]>> \o SortedByTime(SubSeq(items, 1, i - 1)
                                           \o SubSeq(items, i + 1, Len(items)))

\* WorkingMemory.__init__
NewWorkingMemory ==
    [file_contents |-> <<>>, file_hashes |-> <<>>, file_sizes |-> <<>>,
     file_timestamps |-> <<>>, change_history |-> <<>>]

\* WorkingMemory._determine_change_type
_determine_change_type(old_content, new_content) ==
    IF old_content = <<>> /\ new_content # <<>> THEN "file_created"
    ELSE IF old_content # <<>> /\ new_content = <<>> THEN "file_cleared"
    ELSE IF Len(new_content) > Len(old_content) THEN "content_added"
    ELSE IF Len(new_content) < Len(old_content) THEN "content_removed"
    ELSE "content_modified"

\* a change history that is a plain list
_record_change_unbounded(wm, change_record) ==
    [wm EXCEPT !.change_history = Append(@, change_record)]

\* WorkingMemory._record_change: change_history is a deque(maxlen)
_record_change(wm, change_record) ==
    [wm EXCEPT !.change_history =
        IF Len(@) >= max_change_history
        THEN Append(SubSeq(@, Len(@) - max_change_history + 2, Len(@)), change_record)
        ELSE Append(@, change_record)]

\* clear_file_cache called with no filepath
NoPath == "None"

\* a clear_file_cache that drops the content and keeps the metadata
clear_file_cache_content(wm, filepath) ==
    IF filepath # NoPath
    THEN [wm EXCEPT !.file_contents = Pop(@, filepath)]
    ELSE [wm EXCEPT !.file_contents = <<>>]

\* WorkingMemory.clear_file_cache(filepath): one path, or with no filepath
\* all of them
clear_file_cache(wm, filepath) ==
    IF filepath # NoPath
    THEN [wm EXCEPT !.file_contents = Pop(@, filepath),
                    !.file_hashes = Pop(@, filepath),
                    !.file_sizes = Pop(@, filepath),
                    !.file_timestamps = PopItem(@, filepath)]
    ELSE [wm EXCEPT !.file_contents = <<>>,
                    !.file_hashes = <<>>,
                    !.file_sizes = <<>>,
                    !.file_timestamps = <<>>]

RECURSIVE ClearEach(_, _)
ClearEach(wm, items) ==
    IF items = <<>> THEN wm
    ELSE ClearEach(clear_file_cache(wm, items[1][1]), Tail(items))

\* a _manage_cache_size that empties a cache over the bound
_manage_cache_size_clears(wm) ==
    IF Cardinality(DOMAIN wm.file_contents) <= max_file_cache
    THEN wm
    ELSE ClearEach(wm, wm.file_timestamps)

\* WorkingMemory._manage_cache_size
_manage_cache_size(wm) ==
    IF Cardinality(DOMAIN wm.file_contents) <= max_file_cache
    THEN wm
    ELSE LET files_by_access == SortedByTime(wm.file_timestamps)
             excess == Cardinality(DOMAIN wm.file_contents) - max_file_cache
             files_to_remove ==
                 SubSeq(files_by_access, 1,
                        IF excess < Len(files_by_access) THEN excess ELSE Len(files_by_access))
         IN  ClearEach(wm, files_to_remove)

\* WorkingMemory.cache_file_content on disk d: [wm, returned]
cache_file_content(wm, d, filepath, content, force_refresh) ==
    LET current_size == IF d[filepath].exists THEN Len(d[filepath].content) ELSE 0
        current_mtime == IF d[filepath].exists THEN d[filepath].mtime ELSE 0
        content_hash == Hash(content)
        content_changed ==
            \/ ~Has(wm.file_hashes, filepath)
            \/ wm.file_hashes[filepath] # content_hash
            \/ force_refresh
        had_content == Has(wm.file_contents, filepath)
        updated ==
            [wm EXCEPT !.file_contents = Put(@, filepath, content),
                       !.file_hashes = Put(@, filepath, content_hash),
                       !.file_sizes = Put(@, filepath, current_size),
                       !.file_timestamps = PutItem(@, filepath, current_mtime)]
        change_record ==
            [filepath |-> filepath, operation |-> "content_update",
             old_hash |-> wm.file_hashes[filepath], new_hash |-> content_hash,
             change_type |-> _determine_change_type(wm.file_contents[filepath], content)]
        tracked == IF had_content THEN _record_change(updated, change_record) ELSE updated
    IN  IF content_changed
        THEN [wm |-> _manage_cache_size(tracked), returned |-> TRUE]
        ELSE [wm |-> wm, returned |-> FALSE]

\* WorkingMemory.refresh_file_cache on disk d: [wm, returned]
refresh_file_cache(wm, d, filepath) ==
    IF d[filepath].exists
    THEN cache_file_content(wm, d, filepath, d[filepath].content, TRUE)
    ELSE [wm |-> clear_file_cache(wm, filepath), returned |-> FALSE]

\* the outcome of get_file_content: None, or the content
NotCached == [found |-> FALSE, content |-> <<>>]
Found(content) == [found |-> TRUE, content |-> content]

\* get_file_content returning whatever is cached
get_file_content_unchecked(wm, d, filepath) ==
    IF Has(wm.file_contents, filepath)
    THEN Found(wm.file_contents[filepath])
    ELSE NotCached

\* WorkingMemory.record_file_operation: the operation record goes to the
\* change history
record_file_operation(wm, filepath, operation, success) ==
    _record_change(wm, [filepath |-> filepath, operation |-> operation, success |-> success])

\* get_file_content treating an unchanged modification time as stale
get_file_content_strict(wm, d, filepath) ==
    IF Has(wm.file_contents, filepath) /\ d[filepath].exists
          /\ d[filepath].mtime < Get(wm.file_timestamps, filepath, 0)
    THEN Found(wm.file_contents[filepath])
    ELSE NotCached

\* WorkingMemory.get_file_content on disk d
get_file_content(wm, d, filepath) ==
    IF Has(wm.file_contents, filepath)
    THEN IF d[filepath].exists
         THEN IF d[filepath].mtime <= Get(wm.file_timestamps, filepath, 0)
              THEN Found(wm.file_contents[filepath])
              ELSE NotCached
         ELSE NotCached
    ELSE NotCached

\* ------------------------------------------------------- Persistent Memory
\* the pattern types and the pattern_data dicts of the model, each dict
\* given by its key set
PatternTypes == {"file_modification_pattern", "code_style"}
PatternData ==
    {{}, {"k1"}, {"k1", "k2", "k3", "k4"}, {"k1", "k2", "k3", "k5"},
     {"k1", "k2", "k3", "k4", "k5"}}

\* _patterns_similar with > in place of >=
_patterns_similar_strict(pattern1, pattern2, threshold) ==
    /\ pattern1 # {}
    /\ pattern2 # {}
    /\ Cardinality(pattern1 \cap pattern2) * 100 > threshold * Cardinality(pattern1 \cup pattern2)

\* PersistentMemory._patterns_similar; threshold in hundredths (0.8 is 80)
_patterns_similar(pattern1, pattern2, threshold) ==
    /\ pattern1 # {}
    /\ pattern2 # {}
    /\ Cardinality(pattern1 \cap pattern2) * 100 >= threshold * Cardinality(pattern1 \cup pattern2)

\* record_project_pattern comparing the new data with the latest record only
record_project_pattern_latest(patterns, pattern_type, pattern_data) ==
    LET existing == patterns[pattern_type]
    IN  IF existing # <<>> /\ _patterns_similar(pattern_data,
                                                 existing[Len(existing)].pattern_data, 80)
        THEN [patterns EXCEPT ![pattern_type][Len(existing)].occurrence_count = @ + 1]
        ELSE [patterns EXCEPT ![pattern_type] =
                 Append(@, [pattern_data |-> pattern_data, occurrence_count |-> 1])]

\* PersistentMemory.record_project_pattern: the first similar record of the
\* type is counted up, else a record is appended
record_project_pattern(patterns, pattern_type, pattern_data) ==
    LET existing == patterns[pattern_type]
        similar == {i \in 1..Len(existing) :
                       _patterns_similar(pattern_data, existing[i].pattern_data, 80)}
        first == CHOOSE i \in similar : \A j \in similar : i <= j
    IN  IF similar # {}
        THEN [patterns EXCEPT ![pattern_type][first].occurrence_count = @ + 1]
        ELSE [patterns EXCEPT ![pattern_type] =
                 Append(@, [pattern_data |-> pattern_data, occurrence_count |-> 1])]

\* the preference type and the preference_data dicts of the model, each dict
\* given by its key set
PreferenceTypes == {"preferred_tools"}
PreferenceData ==
    {{}, {"k1", "k2", "k3"}, {"k1", "k2", "k3", "k4"},
     {"k1", "k2", "k3", "k4", "k5", "k6", "k7"},
     {"k1", "k2", "k3", "k4", "k5", "k6", "k7", "k8", "k9", "k10"}}

\* _preferences_similar with the threshold of the patterns
_preferences_similar_as_patterns(pref1, pref2) == _patterns_similar(pref1, pref2, 80)

\* PersistentMemory._preferences_similar: threshold 0.7
_preferences_similar(pref1, pref2) == _patterns_similar(pref1, pref2, 70)

\* PersistentMemory.record_user_preference at time timestamp: the first
\* similar record of the type gains confidence, capped at 1.0 (in tenths), and
\* last_updated; else a record is appended. last_updated 0 is an absent key
record_user_preference(preferences, preference_type, preference_data, timestamp) ==
    LET existing == preferences[preference_type]
        similar == {i \in 1..Len(existing) :
                       _preferences_similar(preference_data, existing[i].data)}
        first == CHOOSE i \in similar : \A j \in similar : i <= j
        confidence == existing[first].confidence + 1
    IN  IF similar # {}
        THEN [preferences EXCEPT
                 ![preference_type][first].confidence =
                     IF confidence < 10 THEN confidence ELSE 10,
                 ![preference_type][first].last_updated = timestamp]
        ELSE [preferences EXCEPT ![preference_type] =
                 Append(@, [data |-> preference_data, confidence |-> 10,
                            last_updated |-> 0])]

\* the processes open on one project directory, and the pattern type and
\* pattern_data dicts they record
Sessions == {"s1", "s2"}
SharedTypes == {"code_style"}
SharedData == {{"k1"}, {"k2"}}

\* _save_memory refusing to replace a file that holds more records of some
\* type than the data
_save_memory_guarded(file, data, io_ok) ==
    IF io_ok /\ \A t \in DOMAIN file : Len(file[t]) <= Len(data[t])
    THEN [file |-> data, warning |-> FALSE]
    ELSE [file |-> file, warning |-> TRUE]

\* PersistentMemory._save_memory: the file is rewritten whole from data; an
\* IOError (io_ok false, the file cannot be opened) is printed as a warning
_save_memory(file, data, io_ok) ==
    IF io_ok
    THEN [file |-> data, warning |-> FALSE]
    ELSE [file |-> file, warning |-> TRUE]

\* PersistentMemory._load_memory of a category file; a missing file gives the
\* default, which the model holds as no record of any type
_load_memory(file) == file

\* the tools whose statistics the model follows, and the entry
\* record_tool_usage creates for a tool that has none
UsedTools == {"read_file", "write_file", "delete_file", "clear_file_content",
              "apply_code_change", "undo_last_action"}
NoUses == [total_uses |-> 0, successful_uses |-> 0, failed_uses |-> 0]

\* PersistentMemory.record_tool_usage: the counters of the tool
record_tool_usage(effectiveness, tool_name, success) ==
    LET tool_stats == IF Has(effectiveness, tool_name) THEN effectiveness[tool_name]
                      ELSE NoUses
    IN  Put(effectiveness, tool_name,
            [total_uses |-> tool_stats.total_uses + 1,
             successful_uses |-> tool_stats.successful_uses + (IF success THEN 1 ELSE 0),
             failed_uses |-> tool_stats.failed_uses + (IF success THEN 0 ELSE 1)])

\* Agent.learn, lines 191-199: a tool_execution observation is recorded as a
\* use of its tool
learn(effectiveness, obs) ==
    IF obs.type = "tool_execution"
    THEN record_tool_usage(effectiveness, obs.tool_name, obs.status = "success")
    ELSE effectiveness

\* record_success_pattern, lines 173 and 177: the patterns kept per type
top_patterns == 20

\* the success pattern type of the model, the keys of its pattern_data dicts
\* and the success rates, in thousandths
SuccessTypes == {"command_pattern"}
KeyNames ==
    <<"k1", "k2", "k3", "k4", "k5", "k6", "k7", "k8", "k9", "k10", "k11", "k12",
      "k13", "k14", "k15", "k16", "k17", "k18", "k19", "k20", "k21", "k22">>
SuccessRates == {400, 800}
SuccessData == {{}, {KeyNames[1]}, {KeyNames[20]}, {KeyNames[21]}, {KeyNames[22]}}

\* the sort key (success_rate, usage_count) of x is greater than that of y
RanksAbove(x, y) ==
    \/ x.success_rate > y.success_rate
    \/ x.success_rate = y.success_rate /\ x.usage_count > y.usage_count

\* list.sort(key=(success_rate, usage_count), reverse=True): descending and
\* stable, records of equal key keep their order
RECURSIVE SortedByRank(_)
SortedByRank(records) ==
    IF records = <<>> THEN <<>>
    ELSE LET i == CHOOSE i \in 1..Len(records) :
                     /\ \A j \in 1..Len(records) : ~RanksAbove(records[j], records[i])
                     /\ \A j \in 1..(i - 1) : RanksAbove(records[i], records[j])
         IN  <<records[i]>> \o SortedByRank(SubSeq(records, 1, i - 1)
                                             \o SubSeq(records, i + 1, Len(records)))

\* the cap keeping the first records of the list as it is
KeepFirst(records) ==
    IF Len(records) > top_patterns THEN SubSeq(records, 1, top_patterns) ELSE records

\* record_success_pattern, lines 172-177: keep only the top patterns
KeepTop(records) ==
    IF Len(records) > top_patterns
    THEN SubSeq(SortedByRank(records), 1, top_patterns)
    ELSE records

\* PersistentMemory.record_success_pattern: the first similar record of the
\* type is used once more and its rate averaged with the new one, else a
\* record is appended; then the list is capped
record_success_pattern(patterns, pattern_type, pattern_data, success_rate) ==
    LET existing == patterns[pattern_type]
        similar == {i \in 1..Len(existing) :
                       _patterns_similar(pattern_data, existing[i].pattern_data, 80)}
        first == CHOOSE i \in similar : \A j \in similar : i <= j
        recorded ==
            IF similar # {}
            THEN [existing EXCEPT ![first].usage_count = @ + 1,
                                  ![first].success_rate = (@ + success_rate) \div 2]
            ELSE Append(existing, [pattern_data |-> pattern_data,
                                   success_rate |-> success_rate, usage_count |-> 1])
    IN  [patterns EXCEPT ![pattern_type] = KeepTop(recorded)]

\* --------------------------------------------------------- Memory Manager
\* datetime.timedelta(days=days), in seconds
timedelta(days) == days * 24 * 60 * 60

\* PersistentMemory.record_file_access at time t: the operations list of the
\* path gets a record, held as its timestamp
record_file_access(access_history, filepath, t) ==
    [access_history EXCEPT ![filepath] = Append(@, t)]

\* PersistentMemory.cleanup_old_memory at time t: the operations not newer
\* than the cutoff are dropped, the paths stay
cleanup_old_memory(access_history, t) ==
    LET cutoff == t - timedelta(days_old)
    IN  [q \in DOMAIN access_history |->
            SelectSeq(access_history[q], LAMBDA timestamp : timestamp > cutoff)]

\* WorkingMemory.get_files_needing_refresh on disk d: the cached paths, in
\* the order of the dict, that are gone or newer on disk
get_files_needing_refresh_on_disk(wm, d) ==
    LET paths == [i \in 1..Len(wm.file_timestamps) |-> wm.file_timestamps[i][1]]
    IN  SelectSeq(paths, LAMBDA q : d[q].exists /\ d[q].mtime > Get(wm.file_timestamps, q, 0))

get_files_needing_refresh(wm, d) ==
    LET paths == [i \in 1..Len(wm.file_timestamps) |-> wm.file_timestamps[i][1]]
    IN  SelectSeq(paths, LAMBDA q : IF d[q].exists
                                     THEN d[q].mtime > Get(wm.file_timestamps, q, 0)
                                     ELSE TRUE)

\* sync_memory, lines 194-195: refresh_file_cache for each listed path
RECURSIVE RefreshEach(_, _, _)
RefreshEach(wm, d, paths) ==
    IF paths = <<>> THEN wm
    ELSE RefreshEach(refresh_file_cache(wm, d, paths[1]).wm, d, Tail(paths))

\* sync_memory that also runs when exactly the interval has elapsed
sync_memory_inclusive(wm, d, access_history, last, t, force) ==
    IF force \/ (t - last) >= memory_sync_interval
    THEN [wm |-> RefreshEach(wm, d, get_files_needing_refresh(wm, d)),
          file_access_history |-> cleanup_old_memory(access_history, t),
          last_sync_time |-> t, ran |-> TRUE]
    ELSE [wm |-> wm, file_access_history |-> access_history, last_sync_time |-> last,
          ran |-> FALSE]

\* MemoryManager.sync_memory(force) at time t:
\* [wm, file_access_history, last_sync_time, ran]
sync_memory(wm, d, access_history, last, t, force) ==
    IF force \/ (t - last) > memory_sync_interval
    THEN [wm |-> RefreshEach(wm, d, get_files_needing_refresh(wm, d)),
          file_access_history |-> cleanup_old_memory(access_history, t),
          last_sync_time |-> t, ran |-> TRUE]
    ELSE [wm |-> wm, file_access_history |-> access_history, last_sync_time |-> last,
          ran |-> FALSE]

\* ------------------------------------------------------------------ state
VARIABLES
    fs,                  \* the project files: [Files -> FileStates]
    history,             \* ActionHistory.history
    tool_call,           \* Agent.act's tool_call while the approver is asked
    before,              \* the state of the last dispatched call's target file before it
    observation,         \* the result of the last dispatch or of Agent.act
    current_task_state,  \* Agent.current_task_state
    pc,                  \* where Agent.run stands: idle, loop, confirm, raised
    iteration_count,     \* Agent.run's iteration_count
    approval,            \* the approver's answer in the current iteration
    result,              \* what the last Agent.run returned
    reason_calls,        \* reasoning round-trips of the current run
    dispatches,          \* execute_tool_from_dict calls of the current run
    all_unparsable,      \* every response of the current run was not JSON
    memory_calls,        \* the MemoryManager recording methods the last step called
    extra_calls,         \* tool calls of the current iteration's reply after the first
    perception,          \* Agent.run's perception: what the last perceive returned and appended
    reason_method,       \* the collaborator's method the last Agent.reason called
    disk,                \* the cached paths on disk: [CachePaths -> DiskStates]
    working_memory,      \* MemoryManager.working_memory
    last_call,           \* the last direct WorkingMemory method call and what it returned
    project_patterns,    \* PersistentMemory.project_patterns: type -> list of records
    pattern_calls,       \* record_project_pattern calls made so far, per type
    user_preferences,    \* PersistentMemory.user_preferences: type -> list of records
    preference_calls,    \* the data of the record_user_preference calls so far, per type
    success_patterns,    \* PersistentMemory.success_patterns: type -> list of records
    success_calls,       \* record_success_pattern calls made so far
    tool_effectiveness,  \* PersistentMemory.tool_effectiveness: tool -> counters
    executions,          \* tool calls the Control Loop executed so far, per tool
    store_file,          \* project_patterns.json in the project's memory directory
    sessions,            \* per process on the directory: its PersistentMemory.project_patterns,
                         \* and whether its last mutation reached the file
    last_save,           \* the last _save_memory call: its session and whether it warned
    snapshots,           \* the files as they were before each action of the Action Log
    backup,              \* the backup copy the last destructive call wrote, if any
    now,                 \* time.time(), seconds since the MemoryManager was constructed
    last_sync_time,      \* MemoryManager.last_sync_time
    file_access_history, \* PersistentMemory.file_access_history: path -> operations
    last_sync,           \* the last sync_memory call: forced or not, ran or not
    last_run             \* when the last sync that ran did so; -1 before the first

vars == <<fs, history, tool_call, before, observation, current_task_state, pc,
          iteration_count, approval, result, reason_calls, dispatches,
          all_unparsable, memory_calls, extra_calls, perception, reason_method,
          disk, working_memory, last_call,
          project_patterns, pattern_calls, user_preferences, preference_calls, success_patterns,
          success_calls, tool_effectiveness, executions, store_file, sessions, last_save, now, last_sync_time, file_access_history,
          last_sync, last_run, snapshots, backup>>

store_vars == <<user_preferences, preference_calls, success_patterns, success_calls>>

usage_vars == <<tool_effectiveness, executions>>

session_vars == <<store_file, sessions, last_save>>

persistent_vars == <<project_patterns, pattern_calls, store_vars, usage_vars, session_vars>>

sync_vars == <<now, last_sync_time, file_access_history, last_sync, last_run>>

memory_vars == <<disk, working_memory, last_call, persistent_vars, sync_vars>>

undo_vars == <<snapshots, backup>>

loop_vars == <<current_task_state, pc, iteration_count, approval, result,
               reason_calls, dispatches, all_unparsable, memory_calls, extra_calls,
               perception, reason_method>>

NoCall == PlainCall("none", "ok")
NoPatterns == [t \in PatternTypes |-> <<>>]
NotStarted == [open |-> FALSE, project_patterns |-> <<>>, flushed |-> FALSE]
NoSave == [session |-> "none", warning |-> FALSE]
NoSync == [force |-> FALSE, ran |-> FALSE, called |-> FALSE]
NoObservation == [status |-> "none", type |-> "none", tool_name |-> "none", message |-> "none"]

\* a perceive that leaves error results out
perceive_successes(tool_output) ==
    IF tool_output.status \in {"none", "error"}
    THEN [tool_output |-> NoObservation, appended |-> <<>>]
    ELSE [tool_output |-> tool_output,
          appended |-> <<[role |-> "tool_output", content |-> tool_output]>>]

\* Agent.perceive, lines 35-36 and 45, for user_input None: the tool_output
\* of the perception returned and the entries appended to
\* conversation_history; NoObservation is None
perceive(tool_output) ==
    IF tool_output = NoObservation
    THEN [tool_output |-> NoObservation, appended |-> <<>>]
    ELSE [tool_output |-> tool_output,
          appended |-> <<[role |-> "tool_output", content |-> tool_output]>>]

\* a reason that always asks for a new plan
reason_always_plans(p, is_continuation) ==
    [method |-> "generate_plan", tool_output |-> NoObservation]

\* Agent.reason, lines 54-68: the method called and the tool output passed
reason(p, is_continuation) ==
    IF is_continuation /\ p.tool_output # NoObservation
    THEN [method |-> "analyze_and_respond", tool_output |-> p.tool_output]
    ELSE [method |-> "generate_plan", tool_output |-> NoObservation]

NoMemoryCall ==
    [op |-> "none", filepath |-> "none", content |-> <<>>, returned |-> FALSE, value |-> NotCached]

\* the state after construction, but for the files the session finds
InitAgent ==
    /\ history = <<>>
    /\ tool_call = NoCall
    /\ before = NoFile
    /\ observation = NoObservation
    /\ current_task_state = "idle"
    /\ pc = "idle"
    /\ iteration_count = 0
    /\ approval = "none"
    /\ result = NoObservation
    /\ reason_calls = 0
    /\ dispatches = 0
    /\ all_unparsable = TRUE
    /\ memory_calls = {}
    /\ extra_calls = 0
    /\ perception = perceive(NoObservation)
    /\ reason_method = "none"
    /\ working_memory = NewWorkingMemory
    /\ last_call = NoMemoryCall
    /\ project_patterns = [t \in PatternTypes |-> <<>>]
    /\ pattern_calls = [t \in PatternTypes |-> 0]
    /\ user_preferences = [t \in PreferenceTypes |-> <<>>]
    /\ preference_calls = [t \in PreferenceTypes |-> <<>>]
    /\ success_calls = 0
    /\ tool_effectiveness = <<>>
    /\ executions = <<>>
    /\ store_file = NoPatterns
    /\ sessions = [s \in Sessions |-> NotStarted]
    /\ last_save = NoSave
    /\ now = 0
    /\ last_sync_time = 0
    /\ file_access_history = [p \in CachePaths |-> <<>>]
    /\ last_sync = NoSync
    /\ last_run = -1
    /\ snapshots = <<>>
    /\ backup = NoFile

InitEngine ==
    /\ disk = [p \in CachePaths |-> Absent]
    /\ success_patterns = [t \in SuccessTypes |-> <<>>]
    /\ InitAgent

Init ==
    /\ fs \in [Files -> FileStates]
    /\ InitEngine

\* the model keeps the Action Log and the file contents within the bounds
WithinBounds(r) ==
    /\ Len(r.history) <= MaxHistory
    /\ \A p \in Files : Len(r.fs[p].content) <= MaxLen

\* ------------------------------------------- the dispatcher, called directly
\* ToolExecutionSystem.execute_tool_from_dict with well-formed arguments, as
\* the CLI's undo command and the tests call it
Dispatch(c, backup_ok, ext_ok) ==
    \E r \in {execute_tool_from_dict(fs, history, c, backup_ok, ext_ok)} :
        /\ pc = "idle"
        /\ ~r.raised
        /\ WithinBounds(r)
        /\ fs' = r.fs
        /\ history' = r.history
        /\ before' = fs[c.filepath]
        /\ observation' = [status |-> r.out.status, type |-> "tool_output",
                           tool_name |-> c.name, message |-> r.out.message]
        /\ UNCHANGED <<tool_call, loop_vars, memory_vars, undo_vars>>

WriteFile == \E p \in Files, c \in Contents, b \in BOOLEAN : Dispatch(WriteCall(p, c), b, TRUE)
DeleteFile == \E p \in Files, b \in BOOLEAN : Dispatch(FileCall("delete_file", p), b, TRUE)
ClearFileContent ==
    \E p \in Files, b \in BOOLEAN : Dispatch(FileCall("clear_file_content", p), b, TRUE)
ApplyCodeChange ==
    \E p \in Files, old \in Codes, new \in Codes, b \in BOOLEAN :
        Dispatch(ApplyCall(p, old, new), b, TRUE)
ReadFile == \E p \in Files : Dispatch(FileCall("read_file", p), TRUE, TRUE)
UndoLastAction == Dispatch(PlainCall("undo_last_action", "ok"), TRUE, TRUE)
UnknownTool == Dispatch(PlainCall("edit_file", "ok"), TRUE, TRUE)

ToolNext ==
    \/ WriteFile
    \/ DeleteFile
    \/ ClearFileContent
    \/ ApplyCodeChange
    \/ ReadFile
    \/ UndoLastAction
    \/ UnknownTool

ToolSpec == Init /\ [][ToolNext]_vars

\* ------------------------------------------------ the collaborator's reply
\* How the reply text is wrapped: as it is, with surrounding whitespace, in
\* a ```json fence, in a plain ``` fence
Wraps == {"bare", "padded", "fence_json", "fence"}

\* What the reply is once unwrapped:
\*   prose              text that json.loads rejects
\*   json_text          {"text": ...}
\*   json_tool_calls    {"tool_calls": [...]}, the list not empty
\*   json_no_calls      {"tool_calls": []}
\*   json_other_object  an object with neither key
\*   json_list, json_string   a list or string containing neither key word
\*   json_string_text   a JSON string containing the word text
\*   json_number, json_null
Kinds == {"prose", "json_text", "json_tool_calls", "json_no_calls", "json_other_object",
          "json_list", "json_string", "json_string_text", "json_number", "json_null"}

Responses == [wrap : Wraps, kind : Kinds]

\* act using the reply as it came, without strip() and fence removal
unprocessed_action(response) == response

\* Agent.act, lines 75-85: strip() and removal of the code fence
processed_action(response) == [response EXCEPT !.wrap = "bare"]

\* the value of the "text" key of a {"text": ...} reply
TextValue == [wrap |-> "bare", kind |-> "text_value"]

TextResponse(message) ==
    [status |-> "success", type |-> "text_response", tool_name |-> "none", message |-> message]

\* Agent.act, lines 87-107: the reply parsed; "tool_calls" when a tool call
\* follows, "raise" when an exception other than JSONDecodeError leaves the
\* try block ("tool_calls" in response_json on a number or null, indexing a
\* string with 'text'), else "text"
ParseOutcome(response) ==
    IF response.kind = "prose" THEN "text"
    ELSE IF response.kind \in {"json_number", "json_null", "json_string_text"} THEN "raise"
    ELSE IF response.kind = "json_tool_calls" THEN "tool_calls"
    ELSE "text"

\* the text_response Agent.act returns for a reply without tool call
TextOutcome(response) ==
    IF response.kind = "json_text" THEN TextResponse(TextValue)
    ELSE TextResponse(processed_action(response))

\* the confirmation list without delete_file
ConfirmationRequiredButDelete ==
    {"write_file", "clear_file_content", "apply_code_change",
     "edit_file", "edit_notebook", "run_terminal_cmd"}

\* Agent.act, line 117: the names that need the approver's confirmation
ConfirmationRequired ==
    {"write_file", "delete_file", "clear_file_content", "apply_code_change",
     "edit_file", "edit_notebook", "run_terminal_cmd"}

\* the loop condition off by one
LoopContinuesInclusive(count, state) == count <= max_iterations /\ state = "active"

\* Agent.run, line 216: the loop condition
LoopContinues(count, state) == count < max_iterations /\ state = "active"

\* a run that a cancellation does not end
EndsRunOnTextOnly(obs) == obs.type = "text_response"

\* a run that a text response does not end
EndsRunOnCancelOnly(obs) == obs.status = "cancelled"

\* Agent.run, lines 231-239: the observations that end the run
EndsRun(obs) == obs.type = "text_response" \/ obs.status = "cancelled"

Cancelled ==
    [status |-> "cancelled", type |-> "cancelled", tool_name |-> "none",
     message |-> "Action cancelled by user."]

ToolError ==
    [status |-> "error", type |-> "tool_error", tool_name |-> "none", message |-> "Tool not found."]

MaxIterationsReached ==
    [status |-> "error", type |-> "none", tool_name |-> "none",
     message |-> "Maximum iterations reached"]

TaskCompleted ==
    [status |-> "success", type |-> "none", tool_name |-> "none", message |-> "Task completed"]

\* ------------------------------------------------------- the Control Loop
\* Agent.run, lines 226-261: the loop's reaction to the observation act
\* returned: return it and go idle, or perceive it and iterate again
Observe(obs) ==
    /\ observation' = obs
    /\ IF EndsRun(obs)
       THEN /\ current_task_state' = "idle"
            /\ pc' = "idle"
            /\ result' = obs
            /\ perception' = perceive(NoObservation)
       ELSE /\ pc' = "loop"
            /\ perception' = perceive(obs)
            /\ UNCHANGED <<current_task_state, result>>

\* an exception leaves Agent.act and Agent.run: nothing catches it, and
\* current_task_state keeps its value
Raise ==
    /\ pc' = "raised"
    /\ UNCHANGED <<current_task_state, result, observation, perception>>

\* Agent.act, lines 156-178, and Agent.learn: the MemoryManager methods
\* called for an executed tool call c on files f with result out
MemoryCalls(f, c, out) ==
    {"record_tool_usage"}
    \cup (IF c.name \in {"read_file", "write_file", "delete_file", "clear_file_content",
                         "apply_code_change"}
          THEN {"record_file_operation"} ELSE {})
    \cup (IF c.name = "read_file" /\ out.status = "success" /\ f[c.filepath].content # <<>>
          THEN {"cache_file_content"} ELSE {})

\* Agent.act, lines 143-185: the tool is executed when the catalog has it
Execute(c, backup_ok, ext_ok) ==
    IF c.name \in available_tools
    THEN \E r \in {execute_tool_from_dict(fs, history, c, backup_ok, ext_ok)} :
            /\ WithinBounds(r)
            /\ fs' = r.fs
            /\ history' = r.history
            /\ dispatches' = dispatches + 1
            /\ UNCHANGED before
            /\ IF r.raised
               THEN /\ Raise
                    /\ memory_calls' = {}
               ELSE /\ Observe([status |-> r.out.status, type |-> "tool_execution",
                                tool_name |-> c.name, message |-> r.out.message])
                    /\ memory_calls' = MemoryCalls(fs, c, r.out)
    ELSE /\ UNCHANGED <<fs, history, before, dispatches>>
         /\ memory_calls' = {}
         /\ Observe(ToolError)

\* Agent.run called with a user request (main.py, line 279)
Run ==
    /\ pc = "idle"
    /\ current_task_state' = "active"
    /\ pc' = "loop"
    /\ iteration_count' = 0
    /\ reason_calls' = 0
    /\ dispatches' = 0
    /\ all_unparsable' = TRUE
    /\ approval' = "none"
    /\ result' = NoObservation
    /\ observation' = NoObservation
    /\ tool_call' = NoCall
    /\ memory_calls' = {}
    /\ extra_calls' = 0
    /\ perception' = perceive(NoObservation)
    /\ reason_method' = "none"
    /\ UNCHANGED <<fs, history, before, memory_vars, undo_vars>>

\* act taking the last tool call of the reply
LastToolCall(tool_calls) == tool_calls[Len(tool_calls)]

\* Agent.act, line 111: tool_call = tool_calls[0]
FirstToolCall(tool_calls) == tool_calls[1]

\* One iteration of Agent.run up to the approver's prompt: the collaborator
\* replies with response; tool_calls is the reply's list of tool calls and
\* entry_ok tells whether its first entry has function, name and arguments
Iterate(response, tool_calls, entry_ok, backup_ok, ext_ok) ==
    \E c \in {FirstToolCall(tool_calls)} :
        /\ pc = "loop"
        /\ LoopContinues(iteration_count, current_task_state)
        /\ iteration_count' = iteration_count + 1
        /\ reason_calls' = reason_calls + 1
        /\ reason_method' = reason(perception, iteration_count' > 1).method
        /\ all_unparsable' = (all_unparsable /\ response.kind = "prose")
        /\ approval' = "none"
        /\ extra_calls' = IF ParseOutcome(response) = "tool_calls" /\ entry_ok
                          THEN Len(tool_calls) - 1 ELSE 0
        /\ UNCHANGED <<memory_vars, undo_vars>>
        /\ IF ParseOutcome(response) = "text"
           THEN /\ Observe(TextOutcome(response))
                /\ memory_calls' = {}
                /\ UNCHANGED <<fs, history, tool_call, before, dispatches>>
           ELSE IF ParseOutcome(response) = "raise" \/ ~entry_ok
           THEN /\ Raise
                /\ memory_calls' = {}
                /\ UNCHANGED <<fs, history, tool_call, before, dispatches>>
           ELSE IF c.name \in ConfirmationRequired
           THEN IF c.shape = "not_dict"
                \* tool_args.get raises AttributeError
                THEN /\ Raise
                     /\ memory_calls' = {}
                     /\ UNCHANGED <<fs, history, tool_call, before, dispatches>>
                ELSE /\ pc' = "confirm"
                     /\ tool_call' = c
                     /\ memory_calls' = {}
                     /\ UNCHANGED <<fs, history, before, dispatches, observation,
                                    current_task_state, result, perception>>
           ELSE /\ Execute(c, backup_ok, ext_ok)
                /\ UNCHANGED tool_call

\* TerminalInterface.confirm_action returns, and Agent.act goes on
Confirm(answer, backup_ok, ext_ok) ==
    /\ pc = "confirm"
    /\ approval' = IF answer THEN "yes" ELSE "no"
    /\ tool_call' = IF answer THEN NoCall ELSE tool_call
    /\ UNCHANGED <<iteration_count, reason_calls, all_unparsable, extra_calls, memory_vars,
                   undo_vars, reason_method>>
    /\ IF answer
       THEN Execute(tool_call, backup_ok, ext_ok)
       ELSE /\ Observe(Cancelled)
            /\ memory_calls' = {}
            /\ UNCHANGED <<fs, history, before, dispatches>>

\* the loop's exit reporting completion whatever the iteration count
ExhaustAsCompleted ==
    /\ pc = "loop"
    /\ ~LoopContinues(iteration_count, current_task_state)
    /\ result' = TaskCompleted
    /\ current_task_state' = "idle"
    /\ pc' = "idle"
    /\ memory_calls' = {}
    /\ UNCHANGED <<fs, history, tool_call, before, observation, iteration_count, approval,
                   reason_calls, dispatches, all_unparsable, extra_calls, memory_vars,
                   undo_vars, perception, reason_method>>

\* Agent.run, lines 263-273: the loop condition is false
Exhaust ==
    /\ pc = "loop"
    /\ ~LoopContinues(iteration_count, current_task_state)
    /\ result' = IF iteration_count >= max_iterations THEN MaxIterationsReached
                 ELSE TaskCompleted
    /\ current_task_state' = "idle"
    /\ pc' = "idle"
    /\ memory_calls' = {}
    /\ UNCHANGED <<fs, history, tool_call, before, observation, iteration_count, approval,
                   reason_calls, dispatches, all_unparsable, extra_calls, memory_vars,
                   undo_vars, perception, reason_method>>

\* the file contents the collaborator proposes in the model, and the files
\* a session of the model starts with
ProposedContents == {<<>>, <<"a">>}
ProposedChanges == {<<<<"a">>, <<"b">>>>, <<<<"b">>, <<"a">>>>, <<<<"a">>, <<>>>>}

\* the tool calls the collaborator proposes in the model
FileToolCalls ==
    {WriteCall(p, c) : p \in Files, c \in ProposedContents}
    \cup {FileCall(n, p) : n \in {"delete_file", "clear_file_content", "read_file"}, p \in Files}
    \cup {ApplyCall(p, ch[1], ch[2]) : p \in Files, ch \in ProposedChanges}
    \cup {CommandCall(p, cmd) : p \in Files, cmd \in Commands}

OtherCalls ==
    {PlainCall(n, "ok") : n \in {"undo_last_action", "edit_file", "summarize"}}
    \cup {PlainCall(n, sh) : n \in {"write_file", "read_file", "undo_last_action"},
                             sh \in {"bad_keys", "not_dict"}}

ProposedCalls == FileToolCalls \cup OtherCalls

ToolReply == [wrap |-> "fence_json", kind |-> "json_tool_calls"]

\* the collaborator replies: text, a tool call, a git call whose outcome is
\* the git client's, or a tool_calls entry without function, name or
\* arguments
Reason ==
    \/ \E response \in Responses :
           /\ response.kind # "json_tool_calls"
           /\ Iterate(response, <<NoCall>>, TRUE, TRUE, TRUE)
    \/ \E c \in ProposedCalls : Iterate(ToolReply, <<c>>, TRUE, TRUE, TRUE)
    \/ \E ext_ok \in BOOLEAN :
           Iterate(ToolReply, <<PlainCall("run_git_command", "ok")>>, TRUE, TRUE, ext_ok)
    \/ Iterate(ToolReply, <<NoCall>>, FALSE, TRUE, TRUE)

Approve ==
    \E answer \in BOOLEAN, backup_ok \in BOOLEAN : Confirm(answer, backup_ok, TRUE)

Next ==
    \/ Run
    \/ Reason
    \/ Approve
    \/ Exhaust

\* replies with up to three tool calls: a write, a delete or a read each
ListCalls ==
    {WriteCall(p, <<"a">>) : p \in Files}
    \cup {FileCall(n, p) : n \in {"delete_file", "read_file"}, p \in Files}

ProposedLists == [1..1 -> ListCalls] \cup [1..2 -> ListCalls] \cup [1..3 -> ListCalls]

\* the collaborator replies with a list of tool calls, or with a final text
ReasonLists ==
    \/ \E tool_calls \in ProposedLists : Iterate(ToolReply, tool_calls, TRUE, TRUE, TRUE)
    \/ Iterate([wrap |-> "bare", kind |-> "json_text"], <<NoCall>>, TRUE, TRUE, TRUE)

MultiCallNext ==
    \/ Run
    \/ ReasonLists
    \/ Approve
    \/ Exhaust

InitLoop ==
    /\ Init
    /\ \A p \in Files : fs[p] \in {NoFile} \cup {File(c) : c \in ProposedContents}

Spec == InitLoop /\ [][Next]_vars

MultiCallSpec == InitLoop /\ [][MultiCallNext]_vars

\* ------------------------------------- the Working Memory, called directly
engine_vars == <<fs, history, tool_call, before, observation, loop_vars, undo_vars>>

\* WorkingMemory.cache_file_content(filepath, content), as MemoryManager
\* calls it: force_refresh is passed by refresh_file_cache only
CacheFileContent(filepath, content) ==
    \E r \in {cache_file_content(working_memory, disk, filepath, content, FALSE)} :
        /\ working_memory' = r.wm
        /\ last_call' = [op |-> "cache_file_content", filepath |-> filepath,
                         content |-> content, returned |-> r.returned, value |-> NotCached]
        /\ UNCHANGED <<disk, engine_vars, persistent_vars, sync_vars>>

\* WorkingMemory.refresh_file_cache(filepath)
RefreshFileCache(filepath) ==
    \E r \in {refresh_file_cache(working_memory, disk, filepath)} :
        /\ working_memory' = r.wm
        /\ last_call' = [op |-> "refresh_file_cache", filepath |-> filepath,
                         content |-> <<>>, returned |-> r.returned, value |-> NotCached]
        /\ UNCHANGED <<disk, engine_vars, persistent_vars, sync_vars>>

\* WorkingMemory.get_file_content(filepath)
GetFileContent(filepath) ==
    /\ last_call' = [op |-> "get_file_content", filepath |-> filepath, content |-> <<>>,
                     returned |-> FALSE,
                     value |-> get_file_content(working_memory, disk, filepath)]
    /\ UNCHANGED <<disk, working_memory, engine_vars, persistent_vars, sync_vars>>

\* WorkingMemory.clear_file_cache(filepath)
ClearFileCache(filepath) ==
    /\ working_memory' = clear_file_cache(working_memory, filepath)
    /\ last_call' = [op |-> "clear_file_cache", filepath |-> filepath, content |-> <<>>,
                     returned |-> FALSE, value |-> NotCached]
    /\ UNCHANGED <<disk, engine_vars, persistent_vars, sync_vars>>

\* another program writes or removes a cached path
ModifyFile(filepath, version) ==
    /\ disk[filepath] # version
    /\ disk' = [disk EXCEPT ![filepath] = version]
    /\ UNCHANGED <<working_memory, last_call, engine_vars, persistent_vars, sync_vars>>

Cache ==
    \E filepath \in CachePaths, content \in CachedContents :
        CacheFileContent(filepath, content)
Refresh == \E filepath \in CachePaths : RefreshFileCache(filepath)
Lookup == \E filepath \in CachePaths : GetFileContent(filepath)
Clear == \E filepath \in CachePaths \cup {NoPath} : ClearFileCache(filepath)
Modify == \E filepath \in CachePaths, version \in DiskStates : ModifyFile(filepath, version)

CacheNext ==
    \/ Cache
    \/ Refresh
    \/ Lookup
    \/ Clear
    \/ Modify

InitCache ==
    /\ Init
    /\ fs = [p \in Files |-> NoFile]

CacheSpec == InitCache /\ [][CacheNext]_vars

\* ---------------------------------- the Persistent Memory, called directly
\* PersistentMemory.record_project_pattern(pattern_type, pattern_data)
RecordProjectPattern(pattern_type, pattern_data) ==
    /\ pattern_calls[pattern_type] < MaxRecordings
    /\ project_patterns' = record_project_pattern(project_patterns, pattern_type, pattern_data)
    /\ pattern_calls' = [pattern_calls EXCEPT ![pattern_type] = @ + 1]
    /\ UNCHANGED <<engine_vars, disk, working_memory, last_call, sync_vars, store_vars,
                   usage_vars, session_vars>>

PatternNext ==
    \E pattern_type \in PatternTypes, pattern_data \in PatternData :
        RecordProjectPattern(pattern_type, pattern_data)

PatternSpec == InitCache /\ [][PatternNext]_vars

\* PersistentMemory.record_user_preference(preference_type, preference_data);
\* the timestamp is the number of the call
RecordUserPreference(preference_type, preference_data) ==
    /\ Len(preference_calls[preference_type]) < MaxPreferences
    /\ user_preferences' = record_user_preference(user_preferences, preference_type,
                                                  preference_data,
                                                  Len(preference_calls[preference_type]) + 1)
    /\ preference_calls' = [preference_calls EXCEPT ![preference_type] =
                                Append(@, preference_data)]
    /\ UNCHANGED <<engine_vars, disk, working_memory, last_call, sync_vars,
                   project_patterns, pattern_calls, success_patterns, success_calls,
                   usage_vars, session_vars>>

RecordPreference ==
    \E preference_type \in PreferenceTypes, preference_data \in PreferenceData :
        RecordUserPreference(preference_type, preference_data)

\* the same data recorded as a project pattern
RecordAsPattern ==
    \E preference_data \in PreferenceData :
        RecordProjectPattern("code_style", preference_data)

PreferenceNext ==
    \/ RecordPreference
    \/ RecordAsPattern

PreferenceSpec == InitCache /\ [][PreferenceNext]_vars

\* the occurrence_count values of a list of records, added up
RECURSIVE Occurrences(_)
Occurrences(records) ==
    IF records = <<>> THEN 0
    ELSE records[1].occurrence_count + Occurrences(Tail(records))

\* ------------------------------------ two sessions on one project directory
\* a process constructs its PersistentMemory: the category is loaded from
\* the file as it is now
StartSession(s) ==
    /\ ~sessions[s].open
    /\ sessions' = [sessions EXCEPT ![s] = [open |-> TRUE,
                                            project_patterns |-> _load_memory(store_file),
                                            flushed |-> FALSE]]
    /\ UNCHANGED <<engine_vars, disk, working_memory, last_call, sync_vars, store_vars,
                   usage_vars, project_patterns, pattern_calls, store_file, last_save>>

\* record_project_pattern in session s: the session's copy is changed and
\* the category file rewritten from it
SessionRecord(s, pattern_type, pattern_data, io_ok) ==
    /\ sessions[s].open
    /\ Occurrences(sessions[s].project_patterns[pattern_type]) < MaxShared
    /\ \E recorded \in {record_project_pattern(sessions[s].project_patterns,
                                                pattern_type, pattern_data)} :
        \E saved \in {_save_memory(store_file, recorded, io_ok)} :
            /\ sessions' = [sessions EXCEPT ![s].project_patterns = recorded,
                                            ![s].flushed = ~saved.warning]
            /\ store_file' = saved.file
            /\ last_save' = [session |-> s, warning |-> saved.warning]
            /\ UNCHANGED <<engine_vars, disk, working_memory, last_call, sync_vars,
                           store_vars, usage_vars, project_patterns, pattern_calls>>

Start == \E s \in Sessions : StartSession(s)
RecordInSession ==
    \E s \in Sessions, pattern_type \in SharedTypes, pattern_data \in SharedData,
       io_ok \in BOOLEAN :
        SessionRecord(s, pattern_type, pattern_data, io_ok)

SharedNext ==
    \/ Start
    \/ RecordInSession

SharedSpec == InitCache /\ [][SharedNext]_vars

\* PersistentMemory.record_success_pattern(pattern_type, pattern_data,
\* success_rate)
RecordSuccessPattern(pattern_type, pattern_data, success_rate) ==
    /\ success_calls < MaxSuccesses
    /\ success_patterns' = record_success_pattern(success_patterns, pattern_type,
                                                  pattern_data, success_rate)
    /\ success_calls' = success_calls + 1
    /\ UNCHANGED <<engine_vars, disk, working_memory, last_call, sync_vars,
                   project_patterns, pattern_calls, user_preferences, preference_calls,
                   usage_vars, session_vars>>

SuccessNext ==
    \E pattern_type \in SuccessTypes, pattern_data \in SuccessData,
       success_rate \in SuccessRates :
        RecordSuccessPattern(pattern_type, pattern_data, success_rate)

\* a store of n patterns of distinct keys recorded earlier, the one at
\* position low with the lower rate, every second one used twice
Recorded(n, low) ==
    [i \in 1..n |-> [pattern_data |-> {KeyNames[i]},
                     success_rate |-> IF i = low THEN 400 ELSE 800,
                     usage_count |-> 1 + (i % 2)]]

\* the session loads the success patterns earlier sessions saved: none, or a
\* list at the cap or one short of it
InitSuccess ==
    /\ fs = [p \in Files |-> NoFile]
    /\ disk = [p \in CachePaths |-> Absent]
    /\ \E n \in {0, top_patterns - 1, top_patterns}, low \in {0, 1, 10, top_patterns} :
          success_patterns = [t \in SuccessTypes |-> Recorded(n, low)]
    /\ InitAgent

SuccessSpec == InitSuccess /\ [][SuccessNext]_vars

\* ----------------------------------------- sequences of actions and undos
\* the files of the sequences, what the session finds in them and what
\* another program leaves in them
UndoFiles == {"a.txt", "b.txt"}
StartStates == {NoFile} \cup {File(c) : c \in ProposedContents}
EditedStates == {NoFile, File(<<"a">>), File(<<"a", "b">>)}

\* ToolExecutionSystem.execute_tool_from_dict called as in Dispatch, the
\* Action Log growing to MaxDepth records; track tells whether the session
\* keeps the snapshots
Performed(c, backup_ok, track) ==
    \E r \in {execute_tool_from_dict(fs, history, c, backup_ok, TRUE)} :
        /\ ~r.raised
        /\ Len(r.history) <= MaxDepth
        /\ \A p \in DOMAIN r.fs : Len(r.fs[p].content) <= MaxLen
        /\ fs' = r.fs
        /\ history' = r.history
        /\ observation' = [status |-> r.out.status, type |-> "tool_output",
                           tool_name |-> c.name, message |-> r.out.message]
        /\ snapshots' = IF ~track THEN snapshots
                        ELSE IF Len(r.history) > Len(history) THEN Append(snapshots, fs)
                        ELSE IF Len(r.history) < Len(history)
                             THEN SubSeq(snapshots, 1, Len(snapshots) - 1)
                             ELSE snapshots
        /\ backup' = IF c.name \in {"write_file", "delete_file", "clear_file_content",
                                     "apply_code_change"}
                     THEN backup_copy(fs, c.filepath, backup_ok, backup)
                     ELSE backup
        /\ UNCHANGED <<tool_call, before, loop_vars, memory_vars>>

Perform(c, backup_ok) == Performed(c, backup_ok, TRUE)

\* another program writes or removes a file
EditFile(filepath, state) ==
    /\ fs[filepath] # state
    /\ fs' = [fs EXCEPT ![filepath] = state]
    /\ UNCHANGED <<history, tool_call, before, observation, undo_vars, loop_vars, memory_vars>>

\* the calls of the four destructive file tools made in the sessions
DestructiveCalls ==
    {WriteCall(p, c) : p \in Files, c \in ProposedContents}
    \cup {FileCall(n, p) : n \in {"delete_file", "clear_file_content"}, p \in Files}
    \cup {ApplyCall(p, ch[1], ch[2]) : p \in Files, ch \in ProposedChanges}

Write == \E p \in DOMAIN fs, c \in ProposedContents, b \in BOOLEAN : Perform(WriteCall(p, c), b)
Delete == \E p \in DOMAIN fs, b \in BOOLEAN : Perform(FileCall("delete_file", p), b)
ClearContent == \E p \in DOMAIN fs, b \in BOOLEAN : Perform(FileCall("clear_file_content", p), b)
ApplyChange ==
    \E p \in DOMAIN fs, ch \in ProposedChanges, b \in BOOLEAN :
        Perform(ApplyCall(p, ch[1], ch[2]), b)
Undo == Perform(PlainCall("undo_last_action", "ok"), TRUE)
Edit == \E p \in DOMAIN fs, state \in EditedStates : EditFile(p, state)

\* sessions of write_file, delete_file and undo_last_action calls on two files
UndoNext ==
    \/ Write
    \/ Delete
    \/ Undo

InitUndo ==
    /\ fs \in [UndoFiles -> StartStates]
    /\ InitEngine

UndoSpec == InitUndo /\ [][UndoNext]_vars

\* sessions of all four destructive file tools and undo_last_action
SessionNext ==
    \/ Write
    \/ Delete
    \/ ClearContent
    \/ ApplyChange
    \/ Undo

SessionSpec == InitLoop /\ [][SessionNext]_vars

\* sessions of apply_code_change and undo_last_action, with another program
\* changing the file in between
Change ==
    \E p \in DOMAIN fs, ch \in ProposedChanges, b \in BOOLEAN :
        Performed(ApplyCall(p, ch[1], ch[2]), b, FALSE)
Revert == Performed(PlainCall("undo_last_action", "ok"), TRUE, FALSE)

RepairNext ==
    \/ Change
    \/ Revert
    \/ Edit

RepairSpec == InitLoop /\ [][RepairNext]_vars

\* -------------------------------------- the Memory Manager, called directly
\* the number of operations in the file access records
RECURSIVE Operations(_)
Operations(access_history) ==
    IF DOMAIN access_history = {} THEN 0
    ELSE LET q == CHOOSE q \in DOMAIN access_history : TRUE
         IN  Len(access_history[q])
             + Operations([r \in DOMAIN access_history \ {q} |-> access_history[r]])

\* MemoryManager.cache_file_content(filepath, content), as Agent.act calls
\* it with the content read_file returned
ManagerCacheFileContent(filepath) ==
    \E r \in {cache_file_content(working_memory, disk, filepath, disk[filepath].content, FALSE)} :
        /\ disk[filepath].exists
        /\ Operations(file_access_history) < MaxOperations
        /\ working_memory' = r.wm
        /\ file_access_history' = record_file_access(file_access_history, filepath, now)
        /\ UNCHANGED <<disk, last_call, engine_vars, persistent_vars, now, last_sync_time,
                       last_sync, last_run>>

\* MemoryManager.sync_memory(force)
SyncMemory(force) ==
    \E r \in {sync_memory(working_memory, disk, file_access_history, last_sync_time, now,
                          force)} :
        /\ working_memory' = r.wm
        /\ file_access_history' = r.file_access_history
        /\ last_sync_time' = r.last_sync_time
        /\ last_sync' = [force |-> force, ran |-> r.ran, called |-> TRUE]
        /\ last_run' = IF r.ran THEN now ELSE last_run
        /\ UNCHANGED <<disk, last_call, engine_vars, persistent_vars, now>>

\* MemoryManager.__init__ in a later session: a fresh Working Memory, the
\* Persistent Memory loaded from the files the last session saved
NewSession ==
    /\ working_memory # NewWorkingMemory \/ last_sync_time # now
    /\ working_memory' = NewWorkingMemory
    /\ last_sync_time' = now
    /\ last_sync' = NoSync
    /\ last_run' = -1
    /\ UNCHANGED <<disk, last_call, engine_vars, persistent_vars, now, file_access_history>>

\* the number of clock advances that lead to time t
Ticks(t) == (t \div timedelta(days_old)) + ((t % timedelta(days_old)) \div (memory_sync_interval \div 2))

\* time passes: half a sync interval, or the age at which cleanup drops a
\* record
Tick(seconds) ==
    /\ Ticks(now) < MaxTicks
    /\ now' = now + seconds
    /\ UNCHANGED <<disk, working_memory, last_call, engine_vars, persistent_vars,
                   last_sync_time, file_access_history, last_sync, last_run>>

\* the path the sessions of the Memory Manager work on
SyncPaths == {"f1"}

ManagerCache == \E filepath \in SyncPaths : ManagerCacheFileContent(filepath)
Touch == \E filepath \in SyncPaths, version \in DiskStates : ModifyFile(filepath, version)
Sync == SyncMemory(FALSE)
ForcedSync == SyncMemory(TRUE)
ShortTick == Tick(memory_sync_interval \div 2)
LongTick == Tick(timedelta(days_old))

SyncNext ==
    \/ ManagerCache
    \/ Touch
    \/ Sync
    \/ ForcedSync
    \/ NewSession
    \/ ShortTick
    \/ LongTick

SyncSpec == InitCache /\ [][SyncNext]_vars

\* forced syncs of a Working Memory that caches both paths, while another
\* program changes the files
SweepNext ==
    \/ Cache
    \/ Modify
    \/ ForcedSync

SweepSpec == InitCache /\ [][SweepNext]_vars

\* ------------------------------- tool calls that feed the Working Memory
\* the files a successful call c writes or removes
WrittenBy(c, h, out) ==
    IF out.status # "success" THEN {}
    ELSE IF c.name \in {"write_file", "delete_file", "clear_file_content", "apply_code_change"}
    THEN {c.filepath}
    ELSE IF c.name = "undo_last_action" /\ h # <<>>
    THEN {pop_last_action(h).last.details.filepath}
    ELSE {}

\* the paths on disk after the files in written were written: a write gives
\* the file a later modification time than it ever had
TouchFiles(d, f, written) ==
    [q \in DOMAIN d |->
        IF q \in written
        THEN [exists |-> f[q].exists, mtime |-> d[q].mtime + 1, content |-> f[q].content]
        ELSE d[q]]

\* Agent.act, lines 143-181, for a tool call that needs no approval or has
\* it: the tool runs, and the Working Memory records the file operation and
\* caches what read_file returned
Act(c, backup_ok) ==
    \E r \in {execute_tool_from_dict(fs, history, c, backup_ok, TRUE)} :
        LET calls == MemoryCalls(fs, c, r.out)
            d == TouchFiles(disk, r.fs, WrittenBy(c, history, r.out))
            recorded == IF "record_file_operation" \in calls
                        THEN record_file_operation(working_memory, c.filepath, c.name,
                                                   r.out.status = "success")
                        ELSE working_memory
            cached == IF "cache_file_content" \in calls
                      THEN cache_file_content(recorded, d, c.filepath,
                                              fs[c.filepath].content, FALSE).wm
                      ELSE recorded
        IN  /\ ~r.raised
            /\ Len(r.history) <= MaxDepth
            /\ \A q \in DOMAIN r.fs : Len(r.fs[q].content) <= MaxLen
            /\ \A q \in DOMAIN d : d[q].mtime <= MaxWrites
            /\ fs' = r.fs
            /\ history' = r.history
            /\ disk' = d
            /\ working_memory' = cached
            /\ observation' = [status |-> r.out.status, type |-> "tool_execution",
                               tool_name |-> c.name, message |-> r.out.message]
            /\ UNCHANGED <<tool_call, before, loop_vars, undo_vars, last_call,
                           persistent_vars, sync_vars>>

ReadStep == \E q \in DOMAIN fs : Act(FileCall("read_file", q), TRUE)
MutateStep == \E c \in DestructiveCalls, b \in BOOLEAN : Act(c, b)
UndoStep == Act(PlainCall("undo_last_action", "ok"), TRUE)

CoherenceNext ==
    \/ ReadStep
    \/ MutateStep
    \/ UndoStep
    \/ ForcedSync

\* the session finds its files on disk, each written once if it is there
InitCoherence ==
    /\ fs \in [Files -> StartStates]
    /\ disk = [q \in Files |-> [exists |-> fs[q].exists,
                                 mtime |-> IF fs[q].exists THEN 1 ELSE 0,
                                 content |-> fs[q].content]]
    /\ success_patterns = [t \in SuccessTypes |-> <<>>]
    /\ InitAgent

CoherenceSpec == InitCoherence /\ [][CoherenceNext]_vars

\* the tool calls executed so far, over the tools in names
RECURSIVE Executed(_, _)
Executed(counts, names) ==
    IF names = {} THEN 0
    ELSE LET t == CHOOSE t \in names : TRUE
         IN  (IF Has(counts, t) THEN counts[t] ELSE 0) + Executed(counts, names \ {t})

\* One iteration of Agent.run whose tool call c needs no approval or has it:
\* act runs the tool and records its use (lines 147-163), and run hands the
\* tool_execution observation to learn (lines 227-228)
UseTool(c, backup_ok) ==
    \E r \in {execute_tool_from_dict(fs, history, c, backup_ok, TRUE)} :
        /\ Executed(executions, DOMAIN executions) < MaxExecutions
        /\ ~r.raised
        /\ Len(r.history) <= MaxDepth
        /\ \A q \in DOMAIN r.fs : Len(r.fs[q].content) <= MaxLen
        /\ fs' = r.fs
        /\ history' = r.history
        /\ observation' = [status |-> r.out.status, type |-> "tool_execution",
                           tool_name |-> c.name, message |-> r.out.message]
        /\ tool_effectiveness'
             = learn(record_tool_usage(tool_effectiveness, c.name, r.out.status = "success"),
                     observation')
        /\ executions' = Put(executions, c.name, Executed(executions, {c.name}) + 1)
        /\ UNCHANGED <<tool_call, before, loop_vars, undo_vars, disk, working_memory,
                       last_call, project_patterns, pattern_calls, store_vars, sync_vars,
                       session_vars>>

UseRead == \E q \in DOMAIN fs : UseTool(FileCall("read_file", q), TRUE)
UseDestructive == \E c \in DestructiveCalls, b \in BOOLEAN : UseTool(c, b)
UseUndo == UseTool(PlainCall("undo_last_action", "ok"), TRUE)

UsageNext ==
    \/ UseRead
    \/ UseDestructive
    \/ UseUndo

UsageSpec == InitCoherence /\ [][UsageNext]_vars

\* ================================================================= claims
\* the four destructive file operations
FileMutatingTools == {"write_file", "delete_file", "clear_file_content", "apply_code_change"}

TopRecord == history[Len(history)]

\* C1: a successful destructive file operation followed by undo_last_action
\* leaves the target file exactly as it was before the operation
C1_UndoRestoresPreState ==
    [][(/\ observation.status = "success"
        /\ observation.tool_name \in FileMutatingTools
        /\ UndoLastAction)
       => fs'[TopRecord.details.filepath] = before]_vars

\* C9: apply_code_change on an existing file that does not contain old_code
\* returns error and leaves the file and the Action Log as they were
C9_AbsentFragmentIsError ==
    [][observation'.tool_name = "apply_code_change"
       => \A p \in Files, old \in Codes, new \in Codes, b \in BOOLEAN :
             (/\ fs[p].exists
              /\ ~Contains(fs[p].content, old)
              /\ Dispatch(ApplyCall(p, old, new), b, TRUE))
             => (/\ observation'.status = "error"
                 /\ fs' = fs
                 /\ history' = history)]_vars

C9_Witness ==
    /\ observation.tool_name = "apply_code_change"
    /\ observation.message = "Old code not found"
    /\ history # <<>>
    /\ \E p \in Files : fs[p].exists /\ fs[p].content # <<>>

C11_UndoOnEmptyLog ==
    [][(history = <<>> /\ UndoLastAction)
       => (/\ observation'.status = "error"
           /\ observation'.tool_name = "undo_last_action"
           /\ fs' = fs
           /\ history' = history)]_vars

C11_Witness ==
    /\ observation.tool_name = "undo_last_action"
    /\ observation.message = "No actions to undo."
    /\ history = <<>>
    /\ \E p \in Files : fs[p].exists /\ fs[p].content # <<>>

\* the step appends exactly one record to the top of the Action Log
AppendsOneRecord ==
    /\ Len(history') = Len(history) + 1
    /\ SubSeq(history', 1, Len(history)) = history

NewRecord == history'[Len(history')]

C13_UnknownToolIsError ==
    [][\A c \in ProposedCalls :
          (/\ c.name \notin available_tools
           /\ \/ Iterate(ToolReply, <<c>>, TRUE, TRUE, TRUE)
              \/ tool_call = c /\ Approve)
          => (/\ fs' = fs
              /\ history' = history
              /\ memory_calls' = {}
              /\ current_task_state' = "active"
              /\ pc' # "confirm" => (pc' = "loop" /\ observation'.status = "error"))]_vars

\* the cached paths
Cached == DOMAIN working_memory.file_contents

\* C14: cache_file_content(p, c) called again with the content of the last
\* call returns false and changes nothing in the Working Memory: no
\* ChangeRecord, the entry of p as it was
C14_SecondCacheIsNoOp ==
    [][\A p \in CachePaths, c \in CachedContents :
          (/\ last_call.op = "cache_file_content"
           /\ last_call.filepath = p
           /\ last_call.content = c
           /\ CacheFileContent(p, c))
          => (/\ last_call'.returned = FALSE
              /\ working_memory' = working_memory)]_vars

\* C15: caching a path that is not cached into a full cache leaves exactly
\* max_file_cache entries and evicts the entry that was cached first,
\* whatever the files' modification times on disk
C15_EvictsOldestEntry ==
    [][\A p \in CachePaths, c \in CachedContents :
          (/\ Cardinality(Cached) = max_file_cache
           /\ p \notin Cached
           /\ CacheFileContent(p, c))
          => (/\ Cardinality(DOMAIN working_memory'.file_contents) = max_file_cache
              /\ DOMAIN working_memory'.file_contents
                    = (Cached \ {working_memory.file_timestamps[1][1]}) \cup {p})]_vars

\* C16: get_file_content(p) returns the cached content when p is cached,
\* exists on disk and its modification time is at most the one stored at
\* caching, and None in every other case
C16_GetOnlyWhenFresh ==
    [][\A p \in CachePaths :
          GetFileContent(p)
          => IF /\ p \in Cached
                /\ disk[p].exists
                /\ \E i \in 1..Len(working_memory.file_timestamps) :
                       /\ working_memory.file_timestamps[i][1] = p
                       /\ disk[p].mtime <= working_memory.file_timestamps[i][2]
             THEN last_call'.value = Found(working_memory.file_contents[p])
             ELSE last_call'.value = NotCached]_vars

C16_Witness ==
    /\ last_call.op = "get_file_content"
    /\ last_call.value.found
    /\ last_call.value.content # <<>>
    /\ disk[last_call.filepath].mtime = 1
    /\ working_memory.change_history # <<>>
    /\ \E q \in CachePaths : q \notin Cached /\ disk[q].mtime = 2

\* Jaccard similarity of two key sets is defined and at least 0.8
JaccardAtLeast80(keys1, keys2) ==
    /\ keys1 \cup keys2 # {}
    /\ 5 * Cardinality(keys1 \cap keys2) >= 4 * Cardinality(keys1 \cup keys2)

\* C17: record_project_pattern with data similar (Jaccard >= 0.8) to a record
\* of the type appends nothing and counts up one such record, the first, by
\* exactly 1, every other record staying as it was; with data similar to no
\* record of the type it appends one record with occurrence_count 1; the
\* other types' records are untouched
C17_SimilarPatternsMerge ==
    [][\A t \in PatternTypes, d \in PatternData :
          RecordProjectPattern(t, d)
          => LET old == project_patterns[t]
                 new == project_patterns'[t]
                 matches == {i \in 1..Len(old) : JaccardAtLeast80(d, old[i].pattern_data)}
             IN  /\ \A u \in PatternTypes \ {t} : project_patterns'[u] = project_patterns[u]
                 /\ IF matches # {}
                    THEN /\ Len(new) = Len(old)
                         /\ \E i \in matches :
                               /\ \A j \in matches : i <= j
                               /\ new[i].occurrence_count = old[i].occurrence_count + 1
                               /\ new[i].pattern_data = old[i].pattern_data
                               /\ \A j \in 1..Len(old) : j # i => new[j] = old[j]
                    ELSE new = Append(old, [pattern_data |-> d, occurrence_count |-> 1])]_vars

C17_Witness ==
    \E t \in PatternTypes :
        /\ pattern_calls[t] = 3
        /\ Len(project_patterns[t]) = 2
        /\ project_patterns[t][1].pattern_data = {"k1", "k2", "k3", "k4"}
        /\ project_patterns[t][1].occurrence_count = 2
        /\ project_patterns[t][2].pattern_data = {"k1", "k2", "k3", "k5"}

\* the step dispatches the call c and nothing else: one dispatch, with the
\* effect of c alone on the files and the Action Log
OnlyExecuted(c) ==
    /\ dispatches' = dispatches + 1
    /\ observation'.type = "tool_execution"
    /\ observation'.tool_name = c.name
    /\ \E b \in BOOLEAN :
          /\ fs' = execute_tool_from_dict(fs, history, c, b, TRUE).fs
          /\ history' = execute_tool_from_dict(fs, history, c, b, TRUE).history

NothingExecuted ==
    /\ dispatches' = dispatches
    /\ fs' = fs
    /\ history' = history

\* C18: of a reply with n >= 1 tool calls the iteration dispatches the first
\* and only the first, at once or after the approver's yes; the other calls
\* are not kept, so no later step executes them
C18_OnlyFirstCallRuns ==
    [][/\ \A tool_calls \in ProposedLists :
             (pc = "loop" /\ Iterate(ToolReply, tool_calls, TRUE, TRUE, TRUE))
             => (/\ extra_calls' = Len(tool_calls) - 1
                 /\ IF pc' = "confirm"
                    THEN tool_call' = tool_calls[1] /\ NothingExecuted
                    ELSE OnlyExecuted(tool_calls[1]))
       /\ (pc = "confirm" /\ Approve)
             => IF approval' = "yes" THEN OnlyExecuted(tool_call) ELSE NothingExecuted]_vars

C18_Witness ==
    /\ extra_calls = 2
    /\ iteration_count = 2
    /\ dispatches = 2
    /\ approval = "none"
    /\ observation.type = "tool_execution"
    /\ observation.tool_name = "read_file"
    /\ observation.status = "success"
    /\ history # <<>>

\* C19: when max_iterations iterations are done and the run has not returned,
\* its next step returns the error "Maximum iterations reached" and sets the
\* state idle, with no further reasoning call or dispatch and no change to
\* the files or the Action Log
C19_BudgetExceededIsError ==
    [][(pc = "loop" /\ iteration_count = max_iterations)
       => (/\ result' = MaxIterationsReached
           /\ result'.status = "error"
           /\ current_task_state' = "idle"
           /\ pc' = "idle"
           /\ reason_calls' = reason_calls
           /\ dispatches' = dispatches
           /\ iteration_count' = iteration_count
           /\ fs' = fs
           /\ history' = history)]_vars

C19_Witness ==
    /\ pc = "idle"
    /\ current_task_state = "idle"
    /\ result = MaxIterationsReached
    /\ reason_calls = max_iterations
    /\ observation.status = "error"
    /\ observation.type = "tool_error"
    /\ dispatches < max_iterations

\* C20: a call of a catalog tool with missing or unexpected arguments, once
\* executed, yields an error result that the loop perceives next, and no
\* exception ends the run
C20_BadArgumentsAreErrors ==
    [][\A c \in ProposedCalls :
          (/\ c.name \in available_tools
           /\ c.shape # "ok"
           /\ \/ Iterate(ToolReply, <<c>>, TRUE, TRUE, TRUE)
              \/ /\ pc = "confirm"
                 /\ tool_call = c
                 /\ \E b \in BOOLEAN : Confirm(TRUE, b, TRUE))
          => (/\ pc' # "raised"
              /\ pc' # "confirm"
                    => (/\ pc' = "loop"
                        /\ current_task_state' = "active"
                        /\ observation'.status = "error"
                        /\ observation'.type = "tool_execution"))]_vars

\* C21: an unforced sync_memory runs only when more than memory_sync_interval
\* has passed since the last sync that ran (and since construction); a call
\* that does not run leaves the cache, the persistent store and
\* last_sync_time as they were
C21_UnforcedSyncRespectsInterval ==
    [][Sync
       => IF last_sync'.ran
          THEN /\ now - last_sync_time > memory_sync_interval
               /\ last_run # -1 => now - last_run > memory_sync_interval
               /\ last_sync_time' = now
          ELSE /\ working_memory' = working_memory
               /\ file_access_history' = file_access_history
               /\ project_patterns' = project_patterns
               /\ last_sync_time' = last_sync_time
               /\ last_run # -1 => now - last_run <= memory_sync_interval]_vars

\* an unforced sync was skipped exactly one interval after the last sync
\* that ran, although a cached path was stale
C21_Witness ==
    /\ last_sync = [force |-> FALSE, ran |-> FALSE, called |-> TRUE]
    /\ last_run # -1
    /\ now - last_run = memory_sync_interval
    /\ now - last_sync_time = memory_sync_interval
    /\ get_files_needing_refresh(working_memory, disk) # <<>>

FirstOccurrenceReplaced(s, old, new) ==
    IF \E i \in 1..(Len(s) + 1) :
          /\ OccursAt(s, old, i)
          /\ \A j \in 1..(i - 1) : ~OccursAt(s, old, j)
    THEN LET i == CHOOSE i \in 1..(Len(s) + 1) :
                     /\ OccursAt(s, old, i)
                     /\ \A j \in 1..(i - 1) : ~OccursAt(s, old, j)
         IN  [k \in 1..(Len(s) - Len(old) + Len(new)) |->
                 IF k < i THEN s[k]
                 ELSE IF k < i + Len(new) THEN new[k - i + 1]
                 ELSE s[k - Len(new) + Len(old)]]
    ELSE s

\* C24: undo of an apply_code_change record returns error and leaves the
\* files as they are when the file is gone or its content does not contain
\* the record's new_code; else it succeeds and replaces the first occurrence
\* of new_code by old_code and nothing else
C24_UndoOfCodeChange ==
    [][(history # <<>> /\ TopRecord.type = "apply_code_change" /\ Revert)
       => LET details == TopRecord.details
              current == fs[details.filepath]
          IN  IF ~current.exists \/ ~Contains(current.content, details.new_code)
              THEN /\ observation'.status = "error"
                   /\ fs' = fs
              ELSE /\ observation'.status = "success"
                   /\ fs' = [fs EXCEPT ![details.filepath] =
                                 File(FirstOccurrenceReplaced(current.content,
                                                              details.new_code,
                                                              details.old_code))]]_vars

\* an undo of a code change was refused because the file, changed since, no
\* longer holds the new code
C24_Witness ==
    /\ observation.tool_name = "undo_last_action"
    /\ observation.message = "Could not undo code change"
    /\ \E p \in DOMAIN fs : fs[p].exists /\ fs[p].content # <<>>
    /\ history # <<>>

\* C25: every undo_last_action on a non-empty Action Log removes the top
\* record and no other, whether the reversal succeeds or fails, so that the
\* next undo acts on the record below
C25_UndoAlwaysPops ==
    [][(history # <<>> /\ Undo)
       => (/\ observation'.status \in {"success", "error"}
           /\ Len(history') = Len(history) - 1
           /\ \A i \in 1..Len(history') : history'[i] = history[i])]_vars

\* an undo failed, its record is gone and an older record is now on top
C25_Witness ==
    /\ observation.tool_name = "undo_last_action"
    /\ observation.status = "error"
    /\ history # <<>>
    /\ Len(snapshots) = Len(history)
    /\ TopRecord.type = "delete_file"

C26_BackupBeforeMutation ==
    [][\A c \in DestructiveCalls, b \in BOOLEAN :
          (/\ observation'.tool_name = c.name
           /\ fs[c.filepath].exists
           /\ Perform(c, b))
          => (/\ ~b => (/\ observation'.status = "error"
                        /\ fs' = fs
                        /\ history' = history
                        /\ backup' = backup)
              /\ observation'.status = "success"
                    => (b /\ backup' = fs[c.filepath]))]_vars

\* a delete was refused for want of a backup: the file is there, and the
\* backup copy and the Action Log are those of an earlier write
C26_Witness ==
    /\ observation.tool_name = "delete_file"
    /\ observation.message = "Failed to create backup"
    /\ history # <<>>
    /\ TopRecord.type = "write_file"
    /\ backup.exists
    /\ \E p \in Files : fs[p].exists /\ fs[p] # backup

\* C27: when a tool dispatched in an iteration below the bound returns
\* success or error, the run stays active, the result is appended to the
\* conversation history and becomes the tool output of the perception, and
\* the reasoning call of the next iteration is analyze_and_respond with that
\* result; generate_plan is called in iteration 1 only
C27_ToolResultIsNextPerception ==
    [][/\ (/\ dispatches' = dispatches + 1
           /\ pc' # "raised"
           /\ iteration_count' < max_iterations)
          => (/\ observation'.status \in {"success", "error"}
              /\ current_task_state' = "active"
              /\ pc' = "loop"
              /\ perception'.tool_output = observation'
              /\ perception'.appended
                     = <<[role |-> "tool_output", content |-> observation']>>)
       /\ reason_calls' = reason_calls + 1
          => (/\ reason_method' = (IF iteration_count' = 1 THEN "generate_plan"
                                   ELSE "analyze_and_respond")
              /\ (iteration_count' > 1 /\ observation.type = "tool_execution")
                    => reason(perception, TRUE)
                         = [method |-> "analyze_and_respond",
                            tool_output |-> observation])]_vars

\* the second reasoning call of a run is made after a tool returned error
C27_Witness ==
    /\ iteration_count = 2
    /\ reason_calls = 2
    /\ reason_method = "analyze_and_respond"
    /\ dispatches >= 1
    /\ pc = "confirm"
    /\ observation.type = "tool_execution"
    /\ observation.status = "error"
    /\ perception.tool_output = observation

\* C28: current_task_state is active only while Agent.run is executing, in
\* the loop or at the approver's prompt; a run that has returned left the
\* state idle and returned a text response, a cancellation or the budget
\* error
C28_ActiveOnlyWhileRunning ==
    /\ current_task_state = "active" => pc \in {"loop", "confirm"}
    /\ (pc = "idle" /\ result # NoObservation)
          => (/\ current_task_state = "idle"
              /\ \/ result.type = "text_response"
                 \/ result = Cancelled
                 \/ result = MaxIterationsReached)

\* C29: no step leaves more than max_file_cache cached entries; a
\* cache_file_content call, direct or made by refresh_file_cache, leaves the
\* entries it found and the path it caches when these fit the bound, and
\* otherwise exactly max_file_cache of them
C29_CacheStaysWithinBound ==
    [][/\ Cardinality(DOMAIN working_memory'.file_contents) <= max_file_cache
       /\ \A p \in CachePaths :
             (\/ /\ last_call'.op = "cache_file_content"
                 /\ last_call'.filepath = p
                 /\ CacheFileContent(p, last_call'.content)
              \/ /\ last_call'.op = "refresh_file_cache"
                 /\ last_call'.filepath = p
                 /\ disk[p].exists
                 /\ RefreshFileCache(p))
             => (/\ DOMAIN working_memory'.file_contents \subseteq Cached \cup {p}
                 /\ Cardinality(DOMAIN working_memory'.file_contents)
                       = IF Cardinality(Cached \cup {p}) <= max_file_cache
                         THEN Cardinality(Cached \cup {p})
                         ELSE max_file_cache)]_vars

\* a path was cached into a full cache and an entry was evicted: here the
\* new one
C29_Witness ==
    /\ last_call.op = "cache_file_content"
    /\ last_call.returned
    /\ last_call.filepath \notin DOMAIN working_memory.file_contents
    /\ Cardinality(DOMAIN working_memory.file_contents) = max_file_cache

\* the change type of a transition to new_content: no prior content is a
\* path not cached or cached with empty content
ClassifiedAs(cached, old_content, new_content) ==
    IF ~cached \/ (old_content = <<>> /\ new_content # <<>>) THEN "file_created"
    ELSE IF new_content = <<>> /\ old_content # <<>> THEN "file_cleared"
    ELSE IF Len(new_content) > Len(old_content) THEN "content_added"
    ELSE IF Len(new_content) < Len(old_content) THEN "content_removed"
    ELSE "content_modified"

\* C30: a cache_file_content(p, c) call that returns true appends exactly
\* one ChangeRecord to the change history, for p and with the change type of
\* the transition, file_created when p was not cached
C30_EveryChangeIsRecorded ==
    [][\A p \in CachePaths, c \in CachedContents :
          (CacheFileContent(p, c) /\ last_call'.returned)
          => LET old == working_memory.change_history
                 new == working_memory'.change_history
                 kept == IF Len(old) >= max_change_history
                         THEN SubSeq(old, Len(old) - max_change_history + 2, Len(old))
                         ELSE old
             IN  /\ new # <<>>
                 /\ SubSeq(new, 1, Len(new) - 1) = kept
                 /\ new[Len(new)].filepath = p
                 /\ new[Len(new)].new_hash = Hash(c)
                 /\ new[Len(new)].change_type
                       = ClassifiedAs(p \in Cached,
                                      IF p \in Cached THEN working_memory.file_contents[p]
                                      ELSE <<>>, c)]_vars

C32_SyncLeavesNothingStale ==
    [][(/\ last_sync'.ran
        /\ (SyncMemory(TRUE) \/ SyncMemory(FALSE)))
       => (/\ get_files_needing_refresh(working_memory', disk) = <<>>
           /\ \A q \in Cached :
                 IF ~disk[q].exists
                 THEN q \notin DOMAIN working_memory'.file_contents
                 ELSE /\ q \in DOMAIN working_memory'.file_contents
                      /\ IF disk[q].mtime > Get(working_memory.file_timestamps, q, 0)
                         THEN /\ working_memory'.file_contents[q] = disk[q].content
                              /\ working_memory'.file_hashes[q] = Hash(disk[q].content)
                              /\ Get(working_memory'.file_timestamps, q, 0) = disk[q].mtime
                         ELSE /\ working_memory'.file_contents[q]
                                    = working_memory.file_contents[q]
                              /\ Get(working_memory'.file_timestamps, q, 0)
                                    = Get(working_memory.file_timestamps, q, 0))]_vars

\* a forced sync ran after the last cache_file_content call and replaced the
\* content that call cached by the file's content
C32_Witness ==
    /\ last_sync = [force |-> TRUE, ran |-> TRUE, called |-> TRUE]
    /\ last_call.op = "cache_file_content"
    /\ last_call.returned
    /\ last_call.filepath \in DOMAIN working_memory.file_contents
    /\ disk[last_call.filepath].exists
    /\ working_memory.file_contents[last_call.filepath] # last_call.content
    /\ working_memory.file_contents[last_call.filepath] = disk[last_call.filepath].content
    /\ Get(working_memory.file_timestamps, last_call.filepath, 0)
          = disk[last_call.filepath].mtime

\* C33: in a session of read_file, write_file, delete_file,
\* clear_file_content, apply_code_change and undo_last_action calls and of
\* memory syncs, where each write gives the file a later modification time,
\* get_file_content of a path returns None or the content the file has
C33_CacheIsCoherent ==
    \A q \in DOMAIN fs :
        \/ get_file_content(working_memory, disk, q) = NotCached
        \/ /\ fs[q].exists
           /\ disk[q].content = fs[q].content
           /\ get_file_content(working_memory, disk, q) = Found(fs[q].content)

\* the file was read and cached, written since, and a sync has cached it
\* again: get_file_content returns the content of the last write
C33_Witness ==
    \E q \in DOMAIN fs :
        /\ history # <<>>
        /\ TopRecord.type = "write_file"
        /\ last_sync.ran
        /\ disk[q].mtime >= 2
        /\ Get(working_memory.file_timestamps, q, 0) = disk[q].mtime
        /\ get_file_content(working_memory, disk, q) = Found(fs[q].content)

\* Jaccard similarity of two key sets is defined and at least 0.7
JaccardAtLeast70(keys1, keys2) ==
    /\ keys1 \cup keys2 # {}
    /\ 10 * Cardinality(keys1 \cap keys2) >= 7 * Cardinality(keys1 \cup keys2)

\* C34: record_user_preference with data whose key set is not empty and has
\* Jaccard similarity >= 0.7 with a record of the type appends nothing and
\* updates the first such record; with other data, an empty key set among
\* them, it appends a record. The same data recorded as a project pattern
\* merges exactly when the similarity is >= 0.8
C34_PreferencesMergeAtSeventy ==
    [][/\ \A t \in PreferenceTypes, d \in PreferenceData :
             RecordUserPreference(t, d)
             => LET old == user_preferences[t]
                    new == user_preferences'[t]
                    matches == {i \in 1..Len(old) :
                                   d # {} /\ old[i].data # {}
                                   /\ JaccardAtLeast70(d, old[i].data)}
                IN  IF matches # {}
                    THEN /\ Len(new) = Len(old)
                         /\ \E i \in matches :
                               /\ \A j \in matches : i <= j
                               /\ new[i].data = old[i].data
                               /\ new[i].confidence = 10
                               /\ new[i].last_updated = Len(preference_calls[t]) + 1
                               /\ \A j \in 1..Len(old) : j # i => new[j] = old[j]
                    ELSE new = Append(old, [data |-> d, confidence |-> 10,
                                            last_updated |-> 0])
       /\ \A d \in PreferenceData :
             RecordProjectPattern("code_style", d)
             => LET old == project_patterns["code_style"]
                    new == project_patterns'["code_style"]
                IN  (Len(new) = Len(old))
                       <=> \E i \in 1..Len(old) :
                              d # {} /\ old[i].pattern_data # {}
                              /\ JaccardAtLeast80(d, old[i].pattern_data)]_vars

\* two payloads of similarity 0.75 made one preference record and two
\* pattern records
C34_Witness ==
    /\ preference_calls["preferred_tools"] = <<{"k1", "k2", "k3"}, {"k1", "k2", "k3", "k4"}>>
    /\ Len(user_preferences["preferred_tools"]) = 1
    /\ user_preferences["preferred_tools"][1].last_updated = 2
    /\ Len(project_patterns["code_style"]) = 2
    /\ project_patterns["code_style"][1].pattern_data = {"k1", "k2", "k3"}
    /\ project_patterns["code_style"][2].pattern_data = {"k1", "k2", "k3", "k4"}

\* C35: after a record_success_pattern call the list of the type holds at
\* most top_patterns records; when the call appends to a list at the cap, the
\* list keeps all but one of these records, and the record it drops has no
\* greater (success_rate, usage_count) than any record kept
C35_TopPatternsAreKept ==
    [][\A t \in SuccessTypes, d \in SuccessData, rate \in SuccessRates :
          RecordSuccessPattern(t, d, rate)
          => LET old == success_patterns[t]
                 new == success_patterns'[t]
                 merged == \E i \in 1..Len(old) :
                              d # {} /\ old[i].pattern_data # {}
                              /\ JaccardAtLeast80(d, old[i].pattern_data)
                 all == Append(old, [pattern_data |-> d, success_rate |-> rate,
                                     usage_count |-> 1])
             IN  /\ Len(new) <= top_patterns
                 /\ (~merged /\ Len(old) < top_patterns) => new = all
                 /\ (~merged /\ Len(old) = top_patterns)
                       => \E i \in 1..Len(all) :
                             /\ Len(new) = top_patterns
                             /\ {new[k] : k \in 1..Len(new)}
                                   = {all[j] : j \in (1..Len(all)) \ {i}}
                             /\ \A k \in 1..Len(new) : ~RanksAbove(all[i], new[k])]_vars

\* the list is at the cap, a record of the lower rate was dropped from
\* position 10 and a new record of the higher rate is kept
C35_Witness ==
    \E t \in SuccessTypes :
        /\ Len(success_patterns[t]) = top_patterns
        /\ \A k \in 1..top_patterns : success_patterns[t][k].success_rate = 800
        /\ \A k \in 1..top_patterns : success_patterns[t][k].pattern_data # {KeyNames[10]}
        /\ \E k \in 1..top_patterns : success_patterns[t][k].pattern_data = {KeyNames[21]}

\* C36: starting from an empty store, no list of a pattern type ever holds two
\* distinct records whose key sets are non-empty and similar (Jaccard >= 0.8),
\* and the occurrence counts of a type's records add up to the number of
\* record_project_pattern calls made for the type
C36_PatternsStayDistinctAndCounted ==
    \A t \in PatternTypes :
        /\ \A i, j \in 1..Len(project_patterns[t]) :
              (/\ i # j
               /\ project_patterns[t][i].pattern_data # {}
               /\ project_patterns[t][j].pattern_data # {})
              => ~JaccardAtLeast80(project_patterns[t][i].pattern_data,
                                   project_patterns[t][j].pattern_data)
        /\ Occurrences(project_patterns[t]) = pattern_calls[t]

\* three calls for a type left two records: one of four keys that a call with
\* five keys was merged into, and one of a key set similar to no other
C36_Witness ==
    \E t \in PatternTypes :
        /\ pattern_calls[t] = 3
        /\ project_patterns[t]
             = <<[pattern_data |-> {"k1", "k2", "k3", "k4"}, occurrence_count |-> 2],
                 [pattern_data |-> {"k1"}, occurrence_count |-> 1]>>

\* C37: a tool's total_uses equals the number of executions of the tool by
\* the Control Loop, each execution adding 1 to it and 1 to exactly one of
\* successful_uses and failed_uses, and total_uses = successful_uses +
\* failed_uses
C37_OneUsePerExecution ==
    /\ DOMAIN tool_effectiveness = DOMAIN executions
    /\ \A t \in DOMAIN tool_effectiveness :
          /\ tool_effectiveness[t].total_uses = executions[t]
          /\ tool_effectiveness[t].total_uses
               = tool_effectiveness[t].successful_uses + tool_effectiveness[t].failed_uses

\* the records of the file's list that the written list has no record for
Overwritten(file, written) ==
    {file[i].pattern_data : i \in 1..Len(file)}
        \ {written[i].pattern_data : i \in 1..Len(written)}

\* C38: with two sessions on one directory, a flush that succeeds leaves in
\* the category file exactly the flushing session's own copy, whatever the
\* other session had flushed there, and reports nothing; a warning is
\* printed only when the file could not be written, and then the file is as
\* it was
C38_FlushReplacesWholeCategory ==
    [][\A s \in Sessions, t \in SharedTypes, d \in SharedData, io_ok \in BOOLEAN :
          SessionRecord(s, t, d, io_ok)
          => IF io_ok
             THEN /\ store_file' = sessions'[s].project_patterns
                  /\ last_save' = [session |-> s, warning |-> FALSE]
             ELSE /\ store_file' = store_file
                  /\ last_save' = [session |-> s, warning |-> TRUE]]_vars

\* the lost update: the last mutation of session s1 reached the file whole,
\* the last flush was session s2's and printed no warning, and the file no
\* longer has a record that s1 holds and s2 never had
C38_Witness ==
    /\ last_save = [session |-> "s2", warning |-> FALSE]
    /\ sessions["s1"].flushed
    /\ sessions["s2"].flushed
    /\ \E t \in SharedTypes :
          /\ sessions["s1"].project_patterns[t] # <<>>
          /\ Overwritten(sessions["s1"].project_patterns[t], store_file[t]) # {}
          /\ Overwritten(sessions["s1"].project_patterns[t],
                         sessions["s2"].project_patterns[t]) # {}

\* C39: on a fresh WorkingMemory, after any calls of cache_file_content,
\* refresh_file_cache and clear_file_cache and any evictions, file_contents,
\* file_hashes, file_sizes and file_timestamps have the same keys, and each
\* cached path's stored hash is the hash of its stored content
C39_CacheMapsAgree ==
    /\ DOMAIN working_memory.file_hashes = Cached
    /\ DOMAIN working_memory.file_sizes = Cached
    /\ Keys(working_memory.file_timestamps) = Cached
    /\ Len(working_memory.file_timestamps) = Cardinality(Cached)
    /\ \A p \in Cached :
          working_memory.file_hashes[p] = Hash(working_memory.file_contents[p])

\* a cached path was refreshed from disk after its content had changed: the
\* cache holds this one entry in all four maps, with the new content's hash
C39_Witness ==
    /\ last_call.op = "refresh_file_cache"
    /\ last_call.returned
    /\ working_memory.change_history # <<>>
    /\ Cached = {last_call.filepath}
    /\ Keys(working_memory.file_timestamps) = {last_call.filepath}
    /\ working_memory.file_contents[last_call.filepath] = disk[last_call.filepath].content
    /\ working_memory.file_hashes[last_call.filepath]
         = Hash(disk[last_call.filepath].content)

\* C2: when the approver answers no to a destructive file tool call, the
\* call returns cancelled, files and Action Log stay as they were, no tool
\* is executed and the run returns with state idle
C2_DenialCancels ==
    [][\A b \in BOOLEAN :
          (/\ pc = "confirm"
           /\ tool_call.name \in FileMutatingTools
           /\ Confirm(FALSE, b, TRUE))
          => (/\ observation' = Cancelled
              /\ result' = Cancelled
              /\ fs' = fs
              /\ history' = history
              /\ dispatches' = dispatches
              /\ current_task_state' = "idle"
              /\ pc' = "idle")]_vars

C2_Witness ==
    /\ approval = "no"
    /\ tool_call.name = "delete_file"
    /\ result.status = "cancelled"
    /\ pc = "idle"
    /\ history # <<>>
    /\ fs[tool_call.filepath].exists

\* C3: a destructive file tool changes the files only in the step in which
\* the approver answered yes to that very call, in the same iteration
C3_MutationOnlyAfterApproval ==
    [][(/\ fs' # fs
        /\ observation'.type = "tool_execution"
        /\ observation'.tool_name \in FileMutatingTools)
       => (/\ pc = "confirm"
           /\ approval' = "yes"
           /\ tool_call.name = observation'.tool_name
           /\ iteration_count' = iteration_count)]_vars

C3_Witness ==
    /\ approval = "yes"
    /\ observation.type = "tool_execution"
    /\ observation.tool_name = "delete_file"
    /\ observation.status = "success"

\* C4: run_command is executed by the loop only after the approver
\* confirmed the call
C4_RunCommandNeedsApproval ==
    (observation.type = "tool_execution" /\ observation.tool_name = "run_command")
    => approval = "yes"

\* C5: a run never exceeds max_iterations iterations, reasoning round-trips
\* or tool dispatches, and once the budget is used up its only step is the
\* return
C5_RunIsBounded ==
    /\ iteration_count <= max_iterations
    /\ reason_calls <= max_iterations
    /\ dispatches <= max_iterations
    /\ (pc = "loop" /\ iteration_count = max_iterations)
       => (ENABLED Exhaust /\ ~ENABLED Reason)

C5_Witness ==
    /\ pc = "idle"
    /\ iteration_count = max_iterations
    /\ reason_calls = max_iterations
    /\ dispatches = max_iterations
    /\ result = MaxIterationsReached

\* the run has returned
RunReturned == pc = "idle" /\ reason_calls >= 1

\* C6 as stated: a run in which every reply was unparsable ends with status
\* error and the maximum-iterations message
C6_UnparsableEndsInBudgetError ==
    (RunReturned /\ all_unparsable)
    => (/\ iteration_count <= max_iterations
        /\ result.status = "error"
        /\ result.message = "Maximum iterations reached")

\* C6 amended: a run in which every reply was unparsable ends within the
\* budget, in its first iteration, with status success and type
\* text_response
C6_UnparsableEndsAsText ==
    (RunReturned /\ all_unparsable)
    => (/\ iteration_count = 1
        /\ iteration_count <= max_iterations
        /\ result.status = "success"
        /\ result.type = "text_response")

C6_Witness ==
    /\ RunReturned
    /\ all_unparsable
    /\ result.type = "text_response"
    /\ result.message.kind = "prose"

ProseReplies == {r \in Responses : r.kind = "prose"}

MalformedKinds ==
    {"prose", "json_list", "json_number", "json_string", "json_string_text", "json_null",
     "json_other_object"}

\* C8: every malformed reply becomes a text_response carrying the reply's
\* text (as act cleaned it), and no exception leaves the run
C8_MalformedBecomesText ==
    [][\A response \in Responses, entry_ok \in BOOLEAN :
          (/\ Iterate(response, <<NoCall>>, entry_ok, TRUE, TRUE)
           /\ \/ response.kind \in MalformedKinds
              \/ response.kind = "json_tool_calls" /\ ~entry_ok)
          => (/\ pc' # "raised"
              /\ observation' = TextResponse([wrap |-> "bare", kind |-> response.kind]))]_vars

====
